---- MODULE Spec2Model ----
(***************************************************************************)
(* A model of jobstats.py: the JobStats object after construction, the     *)
(* aggregation done by report_job, the rendering done by enhanced_output   *)
(* (time_limit_formatted, draw_meter, simple_output, job_notes) and the    *)
(* pure helper rounded_memory_with_safety.                                 *)
(*                                                                         *)
(* Units.  TLC's integers are 32 bits wide, so byte quantities are held in *)
(* MiB (2^20 bytes); every comparison of the source against a byte or GiB  *)
(* threshold is restated in MiB, exactly.  Seconds are whole seconds.      *)
(* A Python float that is a quotient of two integers is held as the pair   *)
(* <<numerator, denominator>> and compared by cross-multiplication.        *)
(***************************************************************************)
EXTENDS Integers, Sequences, FiniteSets, TLC

VARIABLES
    pc,                               \* position of the caller: see Init
    job,                              \* the scalar attributes set by __init__ / __get_job_info
    sp_node,                          \* the Sample Store, in dict insertion order
    cpu_util__node_used_alloc_cores,  \* report_job, line 864
    cpu_util_total__used_alloc_cores, \* report_job, line 873
    cpu_mem__node_used_alloc_cores,   \* report_job, line 879
    cpu_mem_total__used_alloc_cores,  \* report_job, line 888
    gpu_util__node_util_index,        \* report_job, line 894
    gpu_util_total__util_gpus,        \* report_job, lines 911/914
    gpu_mem__node_used_total_index,   \* report_job, line 919
    gpu_mem_total__used_alloc,        \* report_job, line 930
    cpu_efficiency,                   \* enhanced_output, line 807
    gpu_utilization,                  \* enhanced_output, line 816 (a quotient <<overall, count>>)
    time_efficiency,                  \* time_limit_formatted, line 749
    time_eff_violation,               \* time_limit_formatted, lines 746/753
    zero_gpu,                         \* job_notes local, line 428/450, as left at return
    zero_cpu,                         \* job_notes local, line 485/502, as left at return
    report,                           \* what the last rendering printed
    prev_report,                      \* what the rendering before it printed
    renders,                          \* number of renderings done
    mem_x, mem_y,                     \* inputs of rounded_memory_with_safety (units of 1/MemDen GB)
    rms_x, rms_y,                     \* its results for mem_x and mem_y
    stdout,                           \* what was printed apart from a complete report
    raised,                           \* the error or exception that ended the run
    queries,                          \* number of live metrics-store queries issued
    assigned,                         \* the aggregate and derived attributes the object has
    read,                             \* the attributes the last job_notes read
    args_job,                         \* main: the job ids given on the command line
    jobid,                            \* main: the loop variable, a position in args_job
    sacct,                            \* what the scheduler returned for the job id
    issued                            \* the metrics-store queries issued, in order

vars == <<pc, job, sp_node,
          cpu_util__node_used_alloc_cores, cpu_util_total__used_alloc_cores,
          cpu_mem__node_used_alloc_cores, cpu_mem_total__used_alloc_cores,
          gpu_util__node_util_index, gpu_util_total__util_gpus,
          gpu_mem__node_used_total_index, gpu_mem_total__used_alloc,
          cpu_efficiency, gpu_utilization, time_efficiency, time_eff_violation,
          zero_gpu, zero_cpu, report, prev_report, renders,
          mem_x, mem_y, rms_x, rms_y, stdout, raised, queries, assigned, read,
          args_job, jobid, sacct, issued>>

aggregates == <<cpu_util__node_used_alloc_cores, cpu_util_total__used_alloc_cores,
                cpu_mem__node_used_alloc_cores, cpu_mem_total__used_alloc_cores,
                gpu_util__node_util_index, gpu_util_total__util_gpus,
                gpu_mem__node_used_total_index, gpu_mem_total__used_alloc>>

derived == <<cpu_efficiency, gpu_utilization, time_efficiency, time_eff_violation,
             zero_gpu, zero_cpu>>

memvars == <<mem_x, mem_y, rms_x, rms_y>>

runvars == <<stdout, raised, queries>>

attrvars == <<assigned, read>>

loopvars == <<args_job, jobid>>

\* What sacct returned (__get_job_info, lines 150-166): ran is false when
\* the command raised, found is false when its output held no row, and
\* start and end are the Start and End columns of the row: "numeric" for
\* a string of digits, "Unknown" or "None" as Slurm prints them.
Sacct(ran, found, start, end) ==
    [ran |-> ran, found |-> found, start |-> start, end |-> end]

SacctResults ==
    { Sacct(FALSE, FALSE, "", ""), Sacct(TRUE, FALSE, "", "") }
    \cup { Sacct(TRUE, TRUE, start, end) :
               start \in {"numeric", "Unknown"},
               end \in {"numeric", "Unknown", "None"} }

\* The row of a job that is held by a constructed object.
FoundBy(j) ==
    Sacct(TRUE, TRUE, "numeric",
          IF j.state = "RUNNING" THEN "Unknown" ELSE "numeric")

(***************************************************************************)
(* Program constants.                                                      *)
(***************************************************************************)
SAMPLING_PERIOD == 30
SECONDS_PER_MINUTE == 60
SECONDS_PER_HOUR == 3600
gpu_utilization_red == 15
gpu_utilization_black == 25
cpu_utilization_red == 65
cpu_utilization_black == 80
time_efficiency_red == 40
time_efficiency_black == 70
min_memory_usage == 70
min_runtime_seconds == 10 * SAMPLING_PERIOD
MiBPerGiB == 1024

\* An attribute that has not been assigned yet.
Unset == <<>>

\* The value of raised while neither error() nor an exception ended the run.
NotRaised == "not raised"

(***************************************************************************)
(* Arithmetic of the Python built-ins the source uses.                     *)
(***************************************************************************)
\* round(n / d) for n >= 0, d > 0: Python 3 rounds an exact half to the even
\* neighbour.
RoundHalfUp(n, d) == (2 * n + d) \div (2 * d)

RoundHalfEven(n, d) ==
    LET q == n \div d
        r == n % d
    IN  IF 2 * r < d THEN q
        ELSE IF 2 * r > d THEN q + 1
        ELSE IF q % 2 = 0 THEN q ELSE q + 1

\* round(m, -k) of an int m >= 0, with step = 10^k: also half-to-even.
RoundToStep(m, step) == step * RoundHalfEven(m, step)

\* math.ceil(n / d) for n >= 0, d > 0.
CeilDiv(n, d) == (n + d - 1) \div d

Max(a, b) == IF a >= b THEN a ELSE b

\* len(f"{x}%") for an int x >= 0.
RECURSIVE Digits(_)
Digits(x) == IF x < 10 THEN 1 ELSE 1 + Digits(x \div 10)

RECURSIVE SumSeq(_)
SumSeq(s) == IF s = <<>> THEN 0 ELSE Head(s) + SumSeq(Tail(s))

RECURSIVE Flatten(_)
Flatten(ss) == IF ss = <<>> THEN <<>> ELSE Head(ss) \o Flatten(Tail(ss))

\* list(d.keys()); gpus.sort(): the keys in increasing order.
RECURSIVE SortedKeys(_)
SortedKeys(S) ==
    IF S = {} THEN <<>>
    ELSE LET m == CHOOSE x \in S : \A y \in S : x <= y
         IN  <<m>> \o SortedKeys(S \ {m})

(***************************************************************************)
(* rounded_memory_with_safety (lines 329-344).  The argument mem_used is   *)
(* the quotient num / den of GB.                                           *)
(***************************************************************************)
\* math.ceil(1.2 * mem_used)
MemWithSafety(num, den) == CeilDiv(12 * num, 10 * den)


\* The same with the rounding never corrected.
RoundedNearest(m, step, bump) == RoundToStep(m, step)

\* The same with the test of the correction reversed.
RoundedUpWrongSign(m, step, bump) ==
    LET mem_suggested == RoundToStep(m, step)
    IN  IF mem_suggested - m > 0 THEN mem_suggested + bump ELSE mem_suggested

\* One "elif" arm (lines 334-335, 337-338, 340-341): round to the step, and
\* add `bump` when that rounded down.
RoundedUp(m, step, bump) ==
    LET mem_suggested == RoundToStep(m, step)
    IN  IF mem_suggested - m < 0 THEN mem_suggested + bump ELSE mem_suggested

rounded_memory_with_safety(num, den) ==
    LET mem_with_safety == MemWithSafety(num, den)
    IN  IF mem_with_safety > 1000 THEN RoundedUp(mem_with_safety, 100, 100)
        ELSE IF mem_with_safety > 100 THEN RoundedUp(mem_with_safety, 10, 10)
        ELSE IF mem_with_safety > 30 THEN RoundedUp(mem_with_safety, 10, 5)
        ELSE Max(1, mem_with_safety)

(***************************************************************************)
(* The inputs: the jobs and Sample Stores the model is run on.             *)
(***************************************************************************)
MaxNodes == 2
MaxRenders == 2
\* rounded_memory_with_safety is run on mem_used = n / MemDen GB, n in 0..MaxMemUnits
MemDen == 2
MaxMemUnits == 1800

Hostname(i) == IF i = 1 THEN "n1" ELSE IF i = 2 THEN "n2" ELSE "n3"

JobStates == {"COMPLETED", "TIMEOUT", "OUT_OF_MEMORY"}

\* <<cluster, partition>>
ClusterPartitions ==
    { <<"della", "gpu">>, <<"della", "mig">>, <<"della", "datascience">>,
      <<"adroit", "gpu">>, <<"tiger", "cpu">>, <<"other", "cpu">> }

\* <<jobname, qos, account>>
JobProfiles ==
    { <<"batch", "normal", "other">>,
      <<"interactive", "test", "physics">>,
      <<"sys/dashboard/sys/jupyter", "normal", "other">> }

\* <<diff, timelimitraw>>: run time in seconds, time limit in minutes
RunTimes == { <<300, 1440>>, <<2400, 30>>, <<3600, 1440>>, <<46800, 1440>> }

CpuCoreCounts == {1, 32}
CpuSecondsUsed == {0, 1700, 3600}
\* <<used_memory, total_memory>> of a node, MiB
CpuMemoryMiB == { <<1024, 8192>>, <<9000, 8192>>, <<160000, 240000>> }

CpuNodeSamples ==
    { [total_time |-> t, cpus |-> c, used_memory |-> m[1], total_memory |-> m[2]] :
        t \in CpuSecondsUsed, c \in CpuCoreCounts, m \in CpuMemoryMiB }

\* The CPU side of the nodes of a GPU job.
GpuJobCpuSamples ==
    { s \in CpuNodeSamples :
        /\ s.cpus = 1
        /\ <<s.total_time, s.used_memory>> \in { <<0, 1024>>, <<3600, 1024>>, <<3600, 160000>> } }

\* One GPU device: duty cycle in percent, memory in MiB.
DeviceSamples ==
    { [util |-> 0,  used |-> 1024,  total |-> 10240],
      [util |-> 10, used |-> 9216,  total |-> 10240],
      [util |-> 20, used |-> 9216,  total |-> 30720],
      [util |-> 90, used |-> 20480, total |-> 40960] }

SecondDeviceSamples == { d \in DeviceSamples : d.util \in {10, 20} }

\* The GPU keys of a node whose devices are devs (device index -> sample).
GpuKeys(devs) ==
    [gpu_utilization  |-> [g \in DOMAIN devs |-> devs[g].util],
     gpu_used_memory  |-> [g \in DOMAIN devs |-> devs[g].used],
     gpu_total_memory |-> [g \in DOMAIN devs |-> devs[g].total]]

\* The same without the gpu_utilization key (no per-device telemetry).
GpuKeysNoUtil(devs) ==
    [gpu_used_memory  |-> [g \in DOMAIN devs |-> devs[g].used],
     gpu_total_memory |-> [g \in DOMAIN devs |-> devs[g].total]]

OneDeviceNodes ==
    { GpuKeys(0 :> d) : d \in DeviceSamples }
      \cup { GpuKeysNoUtil(0 :> d) : d \in { e \in DeviceSamples : e.util = 0 } }

TwoDeviceNodes ==
    { GpuKeys((0 :> d0) @@ (1 :> d1)) : d0 \in DeviceSamples, d1 \in SecondDeviceSamples }

\* A Sample Store of k nodes of a job without GPUs: the nodes differ in the
\* CPU time they used.
CpuStores(k) ==
    { [i \in 1..k |-> [node |-> Hostname(i),
                       d |-> IF i = 1 THEN s ELSE [s EXCEPT !.total_time = used[i]]]] :
        s \in CpuNodeSamples, used \in [2..k -> CpuSecondsUsed] }

\* A Sample Store of k nodes of a GPU job: one node with one or two devices,
\* or several nodes with one device each.
GpuStores(k) ==
    { [i \in 1..k |-> [node |-> Hostname(i), d |-> s @@ g[i]]] :
        s \in GpuJobCpuSamples,
        g \in IF k = 1 THEN [1..1 -> OneDeviceNodes \cup TwoDeviceNodes]
                       ELSE [1..k -> OneDeviceNodes] }

SampleStores ==
    UNION { CpuStores(k) \cup GpuStores(k) : k \in 1..MaxNodes }

\* What sacct reports for the job the store was sampled from.
StoreCores(sp) == SumSeq([i \in 1..Len(sp) |-> sp[i].d.cpus])
StoreGpus(sp) ==
    SumSeq([i \in 1..Len(sp) |->
              IF "gpu_total_memory" \in DOMAIN sp[i].d
              THEN Cardinality(DOMAIN sp[i].d.gpu_total_memory) ELSE 0])

Jobs(sp) ==
    { [state |-> st, cluster |-> cp[1], partition |-> cp[2],
       jobname |-> pr[1], qos |-> pr[2], account |-> pr[3],
       diff |-> rt[1], timelimitraw |-> rt[2],
       nnodes |-> Len(sp), ncpus |-> StoreCores(sp), gpus |-> StoreGpus(sp)] :
        st \in JobStates, cp \in ClusterPartitions, pr \in JobProfiles, rt \in RunTimes }

(***************************************************************************)
(* report_job, lines 860-930: the Aggregator.  Each operator is the value  *)
(* the loop leaves in the attribute of the same name.                      *)
(***************************************************************************)
Column(list, k) == [i \in 1..Len(list) |-> list[i][k]]

\* lines 864-872
CpuUtilPerNode(sp, diff) ==
    [i \in 1..Len(sp) |->
        <<sp[i].node, sp[i].d.total_time, diff * sp[i].d.cpus, sp[i].d.cpus>>]

\* lines 879-887
CpuMemPerNode(sp) ==
    [i \in 1..Len(sp) |->
        <<sp[i].node, sp[i].d.used_memory, sp[i].d.total_memory, sp[i].d.cpus>>]

\* The totals taken from the last node alone, as if the loop assigned
\* where it adds.
UsedAllocCoresOfLast(list) ==
    <<list[Len(list)][2], list[Len(list)][3], list[Len(list)][4]>>

\* lines 861-863, 869-871, 873 and 876-878, 884-886, 888:
\* (total_used, total, total_cores)
UsedAllocCoresTotal(list) ==
    <<SumSeq(Column(list, 2)), SumSeq(Column(list, 3)), SumSeq(Column(list, 4))>>

\* lines 898-909, for one node
GpuUtilOfNode(n, d) ==
    IF "gpu_utilization" \in DOMAIN d
    THEN LET gpus == SortedKeys(DOMAIN d.gpu_utilization)
         IN  [k \in 1..Len(gpus) |-> <<n, d.gpu_utilization[gpus[k]], gpus[k]>>]
    ELSE << <<n, 50, 0>> >>

\* lines 894-909
GpuUtilPerNode(sp) ==
    Flatten([i \in 1..Len(sp) |-> GpuUtilOfNode(sp[i].node, sp[i].d)])

\* lines 895, 908
KeyFound(sp) == \A i \in 1..Len(sp) : "gpu_utilization" \in DOMAIN sp[i].d

\* lines 892-893, 903-904: overall and overall_gpu_count, over the nodes
\* that have the key
MeasuredUtil(sp) ==
    Flatten([i \in 1..Len(sp) |->
        IF "gpu_utilization" \in DOMAIN sp[i].d
        THEN Column(GpuUtilOfNode(sp[i].node, sp[i].d), 2) ELSE <<>>])

\* The mean of the measured devices even when a node lacks the key.
GpuUtilTotalOfMeasured(sp) ==
    IF MeasuredUtil(sp) # <<>> THEN <<SumSeq(MeasuredUtil(sp)), Len(MeasuredUtil(sp))>>
    ELSE <<50, 1>>

\* lines 910-914
GpuUtilTotal(sp) ==
    IF KeyFound(sp) THEN <<SumSeq(MeasuredUtil(sp)), Len(MeasuredUtil(sp))>>
    ELSE <<50, 1>>

\* lines 922-929, for one node
GpuMemOfNode(n, d) ==
    LET gpus == SortedKeys(DOMAIN d.gpu_total_memory)
    IN  [k \in 1..Len(gpus) |->
            <<n, d.gpu_used_memory[gpus[k]], d.gpu_total_memory[gpus[k]], gpus[k]>>]

\* lines 919-929
GpuMemPerNode(sp) ==
    Flatten([i \in 1..Len(sp) |-> GpuMemOfNode(sp[i].node, sp[i].d)])

\* A reduction that averages the per-device ratios instead of summing.
GpuMemTotalOfRatios(list) ==
    <<SumSeq([i \in 1..Len(list) |-> (100 * list[i][2]) \div list[i][3]]),
      100 * Len(list)>>

\* lines 917-918, 927-928, 930: (overall, overall_total)
GpuMemTotal(list) == <<SumSeq(Column(list, 2)), SumSeq(Column(list, 3))>>

(***************************************************************************)
(* Rendering.  The operators below read the attributes of the object, as   *)
(* the methods read self.*; an action applies them to the attributes it    *)
(* has just assigned by priming them.                                      *)
(***************************************************************************)
\* time_limit_formatted, line 748
TimeLimitApplies == job.state = "COMPLETED" /\ job.timelimitraw > 0

\* lines 749-751
TimeEfficiencyUnclamped ==
    RoundHalfEven(100 * job.diff, SECONDS_PER_MINUTE * job.timelimitraw)

TimeEfficiency ==
    IF TimeEfficiencyUnclamped > 100 THEN 100 ELSE TimeEfficiencyUnclamped

\* A violation from time_efficiency_black downwards, the bound included.
TimeEffViolationAtMostBlack ==
    /\ TimeLimitApplies
    /\ TimeEfficiency <= time_efficiency_black
    /\ job.diff > 3 * min_runtime_seconds

\* lines 746, 752-753
TimeEffViolation ==
    /\ TimeLimitApplies
    /\ TimeEfficiency < time_efficiency_black
    /\ job.diff > 3 * min_runtime_seconds

\* lines 747, 754-756: the line printed
TimeLimitLine ==
    [clr |-> IF TimeLimitApplies /\ TimeEfficiency < time_efficiency_red /\ TimeEffViolation
             THEN "bold-red" ELSE "normal",
     seconds |-> SECONDS_PER_MINUTE * job.timelimitraw]

\* enhanced_output, lines 787-803
draw_meter(x, hardware, util) ==
    LET bars0 == x \div 2
        bars1 == IF bars0 < 0 THEN 0 ELSE IF bars0 > 50 THEN 50 ELSE bars0
        len   == Digits(x) + 1
        over  == bars1 + len > 50
    IN  [x      |-> x,
         bars   |-> IF over THEN 50 - len ELSE bars1,
         spaces |-> IF over THEN 0 ELSE 50 - bars1 - len,
         red    |-> \/ (x < cpu_utilization_red /\ hardware = "cpu" /\ util /\ job.gpus = 0)
                    \/ (x < gpu_utilization_red /\ hardware = "gpu" /\ util)]

\* A rounding of exact halves upwards, where Python rounds them to even.
PercentHalfUp(used, total) == IF total # 0 THEN RoundHalfUp(100 * used, total) ELSE 0

\* round(100 * used / total) if total != 0 else 0  (lines 807, 811, 626)
Percent(used, total) == IF total # 0 THEN RoundHalfEven(100 * used, total) ELSE 0

\* line 807
CpuEfficiency ==
    Percent(cpu_util_total__used_alloc_cores[1], cpu_util_total__used_alloc_cores[2])

\* line 811 (and line 626 in job_notes)
CpuMemoryEfficiency ==
    Percent(cpu_mem_total__used_alloc_cores[1], cpu_mem_total__used_alloc_cores[2])

\* line 816: overall / overall_gpu_count, kept as the quotient
GpuUtilization == gpu_util_total__util_gpus

\* round(self.gpu_utilization)
RoundedGpuUtilization == RoundHalfEven(gpu_utilization[1], gpu_utilization[2])

\* line 826
GpuMemoryUsage ==
    RoundHalfEven(100 * gpu_mem_total__used_alloc[1], gpu_mem_total__used_alloc[2])

\* lines 805-827: the meters printed
Meters ==
    [cpu     |-> draw_meter(cpu_efficiency, "cpu", TRUE),
     cpu_mem |-> draw_meter(CpuMemoryEfficiency, "cpu", FALSE)]
    @@ (IF job.gpus # 0
        THEN [gpu     |-> IF job.partition = "mig"
                          THEN [unknown |-> TRUE]
                          ELSE draw_meter(RoundedGpuUtilization, "gpu", TRUE),
              gpu_mem |-> draw_meter(GpuMemoryUsage, "gpu", FALSE)]
        ELSE <<>>)

LastOf(list) == list[Len(list)]

\* All the per-device utilization lines, whatever the partition.
GpuUtilLinesAnyPartition ==
    [i \in 1..Len(gpu_util__node_util_index) |->
        [node |-> gpu_util__node_util_index[i][1],
         gpu_index |-> gpu_util__node_util_index[i][3],
         util |-> gpu_util__node_util_index[i][2],
         not_used |-> gpu_util__node_util_index[i][2] = 0]]

\* simple_output, lines 369-375
GpuUtilLines ==
    IF job.partition = "mig"
    THEN << [node |-> LastOf(cpu_mem__node_used_alloc_cores)[1], unknown |-> TRUE] >>
    ELSE GpuUtilLinesAnyPartition

\* simple_output, lines 346-379: the lines printed (the numbers on them)
simple_output ==
    [cpu |-> [i \in 1..Len(cpu_util__node_used_alloc_cores) |->
                [node |-> cpu_util__node_used_alloc_cores[i][1],
                 used |-> cpu_util__node_used_alloc_cores[i][2],
                 alloc |-> cpu_util__node_used_alloc_cores[i][3],
                 not_used |-> cpu_util__node_used_alloc_cores[i][2] = 0]],
     cpu_total |-> IF job.nnodes # 1
                   THEN << <<cpu_util_total__used_alloc_cores[1],
                             cpu_util_total__used_alloc_cores[2]>> >>
                   ELSE <<>>,
     mem |-> [i \in 1..Len(cpu_mem__node_used_alloc_cores) |->
                [node |-> cpu_mem__node_used_alloc_cores[i][1],
                 used |-> cpu_mem__node_used_alloc_cores[i][2],
                 alloc |-> cpu_mem__node_used_alloc_cores[i][3],
                 cores |-> cpu_mem__node_used_alloc_cores[i][4]]],
     mem_total |-> IF job.nnodes # 1 THEN << cpu_mem_total__used_alloc_cores >> ELSE <<>>]
    @@ (IF job.gpus # 0
        THEN [gpu_util |-> GpuUtilLines,
              gpu_mem  |-> [i \in 1..Len(gpu_mem__node_used_total_index) |->
                              [node |-> gpu_mem__node_used_total_index[i][1],
                               gpu_index |-> gpu_mem__node_used_total_index[i][4],
                               used |-> gpu_mem__node_used_total_index[i][2],
                               total |-> gpu_mem__node_used_total_index[i][3]]]]
        ELSE <<>>)

(***************************************************************************)
(* job_notes, lines 417-716: the Rule Engine.  A note is the rule that     *)
(* wrote it, the style handed to format_note, the message variant and the  *)
(* numbers formatted into the message.                                     *)
(***************************************************************************)
Note(rule, style, variant, args) ==
    [rule |-> rule, style |-> style, variant |-> variant, args |-> args]

CountWhere(list, k, v) == Cardinality({i \in 1..Len(list) : list[i][k] = v})

\* "sys/dashboard/sys/jupyter" in self.jobname, "sys/dashboard/sys/" in self.jobname
JupyterJobNames == {"sys/dashboard/sys/jupyter"}
DashboardJobNames == {"sys/dashboard/sys/jupyter"}
\* "test" in self.qos or "debug" in self.qos
TestQosNames == {"test", "tiger-test", "stellar-debug"}

\* lines 630-631
cores_per_node_rc ==
    [adroit |-> 32, della |-> 28, stellar |-> 96, tiger |-> 40, traverse |-> 32]
cpn == IF job.cluster \in DOMAIN cores_per_node_rc THEN cores_per_node_rc[job.cluster] ELSE 0

\* lines 632-637, in MiB.  (traverse's 7812500000 bytes is no whole number of
\* MiB; 7450 is its floor, exact for "total > mpc" on whole MiB.)
default_mem_per_core ==
    [adroit |-> 3200, della |-> 4000, stellar |-> 7500, tiger |-> 4096, traverse |-> 7450]
mpc == IF job.cluster \in DOMAIN default_mem_per_core
       THEN default_mem_per_core[job.cluster] ELSE 0

\* lines 420-423, as quotients
total_used == cpu_mem_total__used_alloc_cores[1]
total == cpu_mem_total__used_alloc_cores[2]
total_cores == cpu_mem_total__used_alloc_cores[3]
SuggestedMemPerCpu ==
    IF total_cores # 0 THEN rounded_memory_with_safety(total_used, total_cores * MiBPerGiB)
    ELSE rounded_memory_with_safety(0, 1)
SuggestedMem ==
    IF job.nnodes # 0 THEN rounded_memory_with_safety(total_used, job.nnodes * MiBPerGiB)
    ELSE rounded_memory_with_safety(0, 1)

\* lines 429-431
num_unused_gpus == CountWhere(gpu_util__node_util_index, 2, 0)
ZeroGpu ==
    /\ job.gpus # 0
    /\ job.diff > min_runtime_seconds
    /\ num_unused_gpus > 0

\* lines 486-488
num_unused_nodes == CountWhere(cpu_util__node_used_alloc_cores, 2, 0)
ZeroCpu ==
    /\ job.diff > min_runtime_seconds
    /\ num_unused_nodes # 0

\* Rule 1, lines 427-450: zero GPU utilization
Rule1Notes ==
    IF ZeroGpu
    THEN << Note(1, "bold-red", IF job.gpus = 1 THEN "the GPU" ELSE "N of the GPUs",
                 IF job.gpus = 1 THEN <<>> ELSE <<num_unused_gpus, job.gpus>>) >>
    ELSE <<>>

\* self.gpu_utilization < bound, self.gpu_utilization <= bound, ... > bound
GpuUtilBelow(bound) == gpu_utilization[1] < bound * gpu_utilization[2]
GpuUtilAtMost(bound) == gpu_utilization[1] <= bound * gpu_utilization[2]
GpuUtilAbove(bound) == gpu_utilization[1] > bound * gpu_utilization[2]

\* lines 452-457
Rule2Condition ==
    /\ ~zero_gpu
    /\ job.gpus = 1
    /\ job.cluster = "della"
    /\ job.partition = "gpu"
    /\ job.diff > min_runtime_seconds
    /\ GpuUtilBelow(gpu_utilization_red)
    /\ job.ncpus = 1
    /\ total_used < 32 * MiBPerGiB
    /\ gpu_mem_total__used_alloc[1] < 10 * MiBPerGiB

\* Rule 2, lines 451-483: jobs that should have used mig
Rule2Notes ==
    IF Rule2Condition
    THEN << Note(2, "bold-red",
                 IF job.jobname \in JupyterJobNames THEN "jupyter"
                 ELSE IF job.jobname = "interactive" THEN "salloc"
                 ELSE "sbatch", <<>>) >>
    ELSE <<>>

\* Rule 3, lines 484-502: zero CPU utilization
Rule3Notes ==
    IF ZeroCpu
    THEN << IF job.nnodes = 1
            THEN Note(3, "bold-red", "the CPU", <<>>)
            ELSE Note(3, "bold-red", "N of M nodes", <<num_unused_nodes, job.nnodes>>) >>
    ELSE <<>>

Rule4Unguarded ==
    job.gpus # 0 /\ GpuUtilAtMost(gpu_utilization_red)

\* line 504
Rule4Condition ==
    ~zero_gpu /\ job.gpus # 0 /\ GpuUtilAtMost(gpu_utilization_red)

\* Rule 4, lines 503-518: low GPU utilization
Rule4Notes ==
    IF Rule4Condition
    THEN << Note(4, "bold-red",
                 IF /\ (job.jobname \in DashboardJobNames \/ job.jobname = "interactive")
                    /\ job.diff > 12 * SECONDS_PER_HOUR
                 THEN "session" ELSE "investigate",
                 <<RoundedGpuUtilization>>) >>
    ELSE <<>>

Rule5Unguarded ==
    job.gpus = 0 /\ cpu_efficiency < cpu_utilization_black

\* line 520
Rule5Condition ==
    ~zero_cpu /\ job.gpus = 0 /\ cpu_efficiency < cpu_utilization_black

\* Rule 5, lines 519-537: low CPU utilization
Rule5Notes ==
    IF Rule5Condition
    THEN IF job.ncpus > 1
         THEN << Note(5, IF cpu_efficiency < cpu_utilization_red THEN "bold-red" ELSE "normal",
                      "overall", <<cpu_efficiency>>) >>
         ELSE IF cpu_efficiency < cpu_utilization_red
              THEN << Note(5, "bold-red", "single", <<cpu_efficiency>>) >>
              ELSE <<>>
    ELSE <<>>

\* Rule 6, lines 538-548: CPU job that used too many nodes
Rule6Notes ==
    IF /\ job.nnodes > 1
       /\ job.ncpus < 16 * job.nnodes
       /\ total_used < 128 * MiBPerGiB * job.nnodes
       /\ job.gpus = 0
    THEN << Note(6, "bold-red", "nodes", <<job.ncpus, job.nnodes>>) >>
    ELSE <<>>

\* Rule 7, lines 549-565: GPU job that used too many nodes
Rule7Notes ==
    IF job.nnodes > 1 /\ job.gpus > 0
    THEN (IF job.cluster = "della" /\ job.nnodes = job.gpus
          THEN << Note(7, "bold-red", "della", <<job.gpus, job.nnodes>>) >> ELSE <<>>)
         \o
         (IF job.cluster \in {"adroit", "traverse"} /\ job.gpus < 4 * job.nnodes
          THEN << Note(7, "bold-red", "4 per node", <<job.gpus, job.nnodes>>) >> ELSE <<>>)
    ELSE <<>>

\* Rule 8, lines 566-573: out of memory
Rule8Notes ==
    IF job.state = "OUT_OF_MEMORY" THEN << Note(8, "bold-red", "oom", <<>>) >> ELSE <<>>

Rule9UnlessZeroGpu == ~zero_gpu /\ job.state = "TIMEOUT"

\* line 575
Rule9Condition == job.state = "TIMEOUT"

\* Rule 9, lines 574-580: timeout
Rule9Notes ==
    IF Rule9Condition THEN << Note(9, "bold-red", "timeout", <<>>) >> ELSE <<>>

\* Rule 10, lines 581-591: excessive run time limit
Rule10Notes ==
    IF time_eff_violation
    THEN << Note(10, IF time_efficiency < time_efficiency_red THEN "bold-red" ELSE "normal",
                 "time", <<time_efficiency, SECONDS_PER_MINUTE * job.timelimitraw>>) >>
    ELSE <<>>

\* lines 596-598
cascade_max_mem == 190
physics_max_mem == 380
mem_thres_full == IF job.account = "physics" THEN physics_max_mem ELSE cascade_max_mem

\* Rule 11, lines 595-610: datascience nodes.  mem_used_gb < 0.8 * mem_thres_full
Rule11Notes ==
    IF /\ job.cluster = "della"
       /\ job.partition = "datascience"
       /\ 10 * total_used < 8 * mem_thres_full * MiBPerGiB
    THEN << Note(11, "normal", "datascience",
                 <<RoundHalfEven(total_used, MiBPerGiB), mem_thres_full,
                   SuggestedMemPerCpu, SuggestedMem>>) >>
    ELSE <<>>

\* A band of 15% on either side of 100 / ncpus.
RatioWithinFifteenPercent(e, c) == e * c > 85 /\ e * c < 115

\* lines 613-614, 616: ratio = cpu_efficiency / (100 / ncpus) and
\* 0.85 < ratio < 1.1, as IEEE double arithmetic evaluates them.  The double
\* quotient lies on the same side of both bounds as the exact one for every
\* core count up to 1024 but for 10 / (100 / 11) and 5 / (100 / 22), which
\* evaluate to 1.0999999999999999.
RatioWithinSerialBand(e, c) ==
    /\ e * c > 85
    /\ e * c < 110 \/ <<e, c>> \in { <<10, 11>>, <<5, 22>> }

\* Rule 12, lines 611-624: serial code using multiple CPU-cores.
Rule12Notes ==
    IF job.nnodes = 1 /\ job.ncpus > 1 /\ job.gpus = 0
    THEN IF RatioWithinSerialBand(cpu_efficiency, job.ncpus)
         THEN << Note(12, "normal",
                      IF cpu_efficiency # RoundHalfEven(100, job.ncpus)
                      THEN "approximately" ELSE "equal",
                      <<cpu_efficiency, job.ncpus, RoundHalfEven(100, job.ncpus)>>) >>
         ELSE <<>>
    ELSE <<>>

\* lines 638-642.  50e9 bytes = 48828125 KiB
gpu_show ==
    /\ ~(job.gpus # 0 /\ total * 1024 < 48828125 * job.gpus)
    /\ ~(job.gpus # 0 /\ job.gpus = 4 * job.nnodes)

\* lines 627, 644: gb_per_core > (mpc / 1024**3) - 2
GbPerCoreAboveDefault ==
    IF total_cores # 0 THEN total > total_cores * (mpc - 2 * MiBPerGiB)
    ELSE 0 > mpc - 2 * MiBPerGiB

\* Rule 13, lines 625-656: overallocating CPU memory
Rule13Notes ==
    IF /\ ~zero_gpu
       /\ ~zero_cpu
       /\ CpuMemoryEfficiency < min_memory_usage
       /\ GbPerCoreAboveDefault
       /\ total > mpc
       /\ gpu_show
       /\ job.partition # "datascience"
       /\ job.partition # "mig"
       /\ job.state # "OUT_OF_MEMORY"
       /\ job.ncpus < cpn * job.nnodes
       /\ job.diff > min_runtime_seconds
    THEN << Note(13, "normal",
                 IF CpuMemoryEfficiency >= 1 THEN "only used" ELSE "less than 1%",
                 <<CpuMemoryEfficiency, SuggestedMemPerCpu, SuggestedMem>>) >>
    ELSE <<>>

\* lines 657-715: the informational notes
InfoNotes ==
    (IF /\ job.nnodes = 1 /\ job.cluster = "tiger" /\ job.gpus = 0
        /\ job.qos # "tiger-test"
     THEN << Note(14, "normal", "serial on tiger", <<>>) >> ELSE <<>>)
    \o
    (IF /\ job.nnodes = 1 /\ job.cluster = "stellar" /\ job.gpus = 0
        /\ job.ncpus < 48 /\ job.qos # "stellar-debug"
     THEN << Note(15, "normal", "serial on stellar", <<>>) >> ELSE <<>>)
    \o
    (IF /\ ~zero_gpu /\ job.gpus # 0
        /\ GpuUtilBelow(gpu_utilization_black) /\ GpuUtilAbove(gpu_utilization_red)
        /\ job.diff > min_runtime_seconds
     THEN << Note(16, "normal", "somewhat low", <<RoundedGpuUtilization>>) >> ELSE <<>>)
    \o
    (IF job.qos \in TestQosNames
     THEN << Note(17, "normal", "test queue", <<>>) >> ELSE <<>>)
    \o
    (IF job.partition = "mig"
     THEN << Note(18, "normal", "mig", <<>>) >> ELSE <<>>)
    \o
    (IF job.cluster \in {"tiger", "traverse"}
     THEN << Note(19, "normal", "stats.rc", <<>>) >> ELSE <<>>)
    \o
    (IF job.cluster = "stellar"
     THEN << Note(20, "normal", "mystellar", <<>>) >> ELSE <<>>)
    \o
    (IF job.cluster = "della"
     THEN << Note(21, "normal", "mydella", <<>>) >> ELSE <<>>)
    \o
    (IF job.cluster = "adroit"
     THEN << Note(22, "normal", "myadroit", <<>>) >> ELSE <<>>)

\* The notes of an earlier call, were s an attribute that is never reset.
KeptNotes == IF renders = 0 THEN <<>> ELSE report.notes

\* line 418: s = ""
EmptyNotes == <<>>

\* The same notes with the informational ones appended first.
FiredNotesInfoFirst ==
    InfoNotes \o Rule1Notes \o Rule2Notes \o Rule3Notes \o Rule4Notes \o Rule5Notes
    \o Rule6Notes \o Rule7Notes \o Rule8Notes \o Rule9Notes \o Rule10Notes
    \o Rule11Notes \o Rule12Notes \o Rule13Notes

\* lines 427-715: what the rules append to s, in the order of the source,
\* read after zero_gpu and zero_cpu got their final values
FiredNotes ==
    Rule1Notes \o Rule2Notes \o Rule3Notes \o Rule4Notes \o Rule5Notes
    \o Rule6Notes \o Rule7Notes \o Rule8Notes \o Rule9Notes \o Rule10Notes
    \o Rule11Notes \o Rule12Notes \o Rule13Notes \o InfoNotes

(***************************************************************************)
(* The statements of report_job and enhanced_output that raise on a Sample *)
(* Store with missing device keys or zero totals, in the order in which    *)
(* they are executed.                                                      *)
(***************************************************************************)
\* lines 922-927: d['gpu_total_memory'], d['gpu_used_memory'][g]
MissingMemoryKey(d) ==
    \/ "gpu_total_memory" \notin DOMAIN d
    \/ /\ DOMAIN d.gpu_total_memory # {}
       /\ \/ "gpu_used_memory" \notin DOMAIN d
          \/ ~(DOMAIN d.gpu_total_memory \subseteq DOMAIN d.gpu_used_memory)

\* The nodes at which the loop of lines 920-929 raises KeyError.
KeyErrorNodes(sp) == { i \in 1..Len(sp) : MissingMemoryKey(sp[i].d) }

\* lines 922-929, for a node at which the loop raises: the devices appended
\* before it does
GpuMemOfNodeBeforeKeyError(n, d) ==
    IF "gpu_total_memory" \notin DOMAIN d \/ "gpu_used_memory" \notin DOMAIN d THEN <<>>
    ELSE LET gpus == SortedKeys(DOMAIN d.gpu_total_memory)
             done == { k \in 1..Len(gpus) :
                         \A m \in 1..k : gpus[m] \in DOMAIN d.gpu_used_memory }
         IN  [k \in 1..Cardinality(done) |->
                 <<n, d.gpu_used_memory[gpus[k]], d.gpu_total_memory[gpus[k]], gpus[k]>>]

\* lines 919-929: the list as the KeyError leaves it
GpuMemPerNodeBeforeKeyError(sp) ==
    LET first == CHOOSE i \in KeyErrorNodes(sp) : \A k \in KeyErrorNodes(sp) : i <= k
    IN  GpuMemPerNode(SubSeq(sp, 1, first - 1))
        \o GpuMemOfNodeBeforeKeyError(sp[first].node, sp[first].d)

\* line 816: overall / overall_gpu_count
NoDeviceCounted(sp) == GpuUtilTotal(sp)[2] = 0

\* line 826: 100 * overall / overall_total
NoDeviceMemory(sp) == GpuMemTotal(GpuMemPerNode(sp))[2] = 0

\* simple_output, lines 353, 356: 100 * used / alloc
NoCpuSecondsAllocated(j, sp) == \E i \in 1..Len(sp) : j.diff * sp[i].d.cpus = 0

\* simple_output, line 379: 100.0 * used / total
DeviceWithoutMemory(sp) ==
    \E i \in 1..Len(GpuMemPerNode(sp)) : GpuMemPerNode(sp)[i][3] = 0

\* The exception report_job ends with on the job j and the store sp, and the
\* parts of the report printed in full before it; "none" when it returns.
RaisedBy(j, sp) ==
    IF j.gpus # 0 /\ KeyErrorNodes(sp) # {}
    THEN [exception |-> "KeyError", printed |-> <<>>]
    ELSE IF j.gpus # 0 /\ NoDeviceCounted(sp)
    THEN [exception |-> "ZeroDivisionError", printed |-> <<"header", "cpu meters">>]
    ELSE IF j.gpus # 0 /\ NoDeviceMemory(sp)
    THEN [exception |-> "ZeroDivisionError",
          printed |-> <<"header", "cpu meters", "gpu utilization meter">>]
    ELSE IF NoCpuSecondsAllocated(j, sp)
    THEN [exception |-> "ZeroDivisionError", printed |-> <<"header", "meters">>]
    ELSE IF j.gpus # 0 /\ DeviceWithoutMemory(sp)
    THEN [exception |-> "ZeroDivisionError",
          printed |-> <<"header", "meters", "cpu listing", "memory listing",
                        "gpu utilization listing">>]
    ELSE [exception |-> "none", printed |-> <<>>]

Raises(j, sp) == RaisedBy(j, sp).exception # "none"

\* The same with simple = True, where the meters are not drawn.
RaisesSimple(j, sp) ==
    \/ j.gpus # 0 /\ KeyErrorNodes(sp) # {}
    \/ NoCpuSecondsAllocated(j, sp)
    \/ j.gpus # 0 /\ DeviceWithoutMemory(sp)

(***************************************************************************)
(* The attributes report_job and enhanced_output assign, and those         *)
(* job_notes reads.  Reading an attribute the object does not have raises  *)
(* AttributeError.                                                         *)
(***************************************************************************)
CpuAggregates ==
    {"cpu_util__node_used_alloc_cores", "cpu_util_total__used_alloc_cores",
     "cpu_mem__node_used_alloc_cores", "cpu_mem_total__used_alloc_cores"}

GpuAggregates ==
    {"gpu_util__node_util_index", "gpu_util_total__util_gpus",
     "gpu_mem__node_used_total_index", "gpu_mem_total__used_alloc"}

\* report_job, lines 864-888 and, under "if self.gpus:" (line 890), 894-930
AggregatesAssigned ==
    CpuAggregates \cup (IF job.gpus # 0 THEN GpuAggregates ELSE {})

\* enhanced_output before it calls job_notes: time_limit_formatted (lines
\* 746, 749), line 807 and, under "if self.gpus:" (line 813), line 816
DerivedAssigned ==
    {"time_eff_violation", "cpu_efficiency"}
    \cup (IF TimeLimitApplies THEN {"time_efficiency"} ELSE {})
    \cup (IF job.gpus # 0 THEN {"gpu_utilization"} ELSE {})

\* What report_job has assigned when it raises on the job j and the store sp
AssignedBeforeRaise(j, sp) ==
    CpuAggregates
    \cup (IF j.gpus = 0 THEN {}
          ELSE IF KeyErrorNodes(sp) # {}
          THEN GpuAggregates \ {"gpu_mem_total__used_alloc"}
          ELSE GpuAggregates)
    \cup (IF RaisedBy(j, sp).exception = "KeyError" THEN {}
          ELSE {"time_eff_violation", "cpu_efficiency"}
               \cup (IF TimeLimitApplies THEN {"time_efficiency"} ELSE {})
               \cup (IF j.gpus # 0 /\ ~NoDeviceCounted(sp)
                     THEN {"gpu_utilization"} ELSE {}))

\* job_notes without the "self.gpus" operand of lines 504 and 676
ReadByJobNotesUnguarded ==
    {"cpu_mem_total__used_alloc_cores", "time_eff_violation"}
    \cup (IF ~zero_gpu THEN {"gpu_utilization"} ELSE {})

\* job_notes, the attributes read under the guards of lines 420, 429-430,
\* 452-456, 486-487, 504, 520, 582-583, 612-614 and 676
ReadByJobNotes ==
    {"cpu_mem_total__used_alloc_cores", "time_eff_violation"}
    \cup (IF job.gpus # 0 /\ job.diff > min_runtime_seconds
          THEN {"gpu_util__node_util_index"} ELSE {})
    \cup (IF /\ ~zero_gpu /\ job.gpus = 1 /\ job.cluster = "della"
             /\ job.partition = "gpu" /\ job.diff > min_runtime_seconds
          THEN {"gpu_utilization"}
               \cup (IF /\ GpuUtilBelow(gpu_utilization_red) /\ job.ncpus = 1
                        /\ total_used < 32 * MiBPerGiB
                     THEN {"gpu_mem_total__used_alloc"} ELSE {})
          ELSE {})
    \cup (IF job.diff > min_runtime_seconds
          THEN {"cpu_util__node_used_alloc_cores"} ELSE {})
    \cup (IF ~zero_gpu /\ job.gpus # 0 THEN {"gpu_utilization"} ELSE {})
    \cup (IF \/ ~zero_cpu /\ job.gpus = 0
             \/ job.nnodes = 1 /\ job.ncpus > 1 /\ job.gpus = 0
          THEN {"cpu_efficiency"} ELSE {})
    \cup (IF time_eff_violation THEN {"time_efficiency"} ELSE {})

(***************************************************************************)
(* The operations.                                                         *)
(*   pc = "constructed"  __init__ has returned with a non-empty store      *)
(*   pc = "reported"     report_job (or a later enhanced_output) returned  *)
(*   pc = "memory"       rounded_memory_with_safety is about to be called  *)
(*   pc = "suggested"    it has returned                                   *)
(***************************************************************************)
\* job_notes, lines 417-716, called by enhanced_output on the attributes as
\* they are then
job_notes ==
    /\ zero_gpu' = ZeroGpu'
    /\ zero_cpu' = ZeroCpu'
    /\ read' = ReadByJobNotes'
    /\ report' = [time_limit |-> TimeLimitLine,
                  meters     |-> Meters',
                  listing    |-> simple_output',
                  notes      |-> EmptyNotes \o FiredNotes']

\* enhanced_output, lines 758-837, with time_limit_formatted (745-756),
\* simple_output (346-379) and job_notes (417-716)
Rendering ==
    /\ time_eff_violation' = TimeEffViolation
    /\ time_efficiency' = IF TimeLimitApplies THEN TimeEfficiency ELSE time_efficiency
    /\ cpu_efficiency' = CpuEfficiency'
    /\ gpu_utilization' = IF job.gpus # 0 THEN GpuUtilization' ELSE gpu_utilization
    /\ job_notes
    /\ prev_report' = report
    /\ renders' = renders + 1

\* report_job, lines 860-930, with simple = True: line 932 calls simple_output
\* only.  pc = "listed" when it has returned.
report_job_simple ==
    /\ pc = "constructed"
    /\ Len(sp_node) # 0
    /\ ~RaisesSimple(job, sp_node)
    /\ UNCHANGED <<job, sp_node, memvars, loopvars, sacct, issued, runvars, derived,
                   read, prev_report, renders>>
    /\ cpu_util__node_used_alloc_cores' = CpuUtilPerNode(sp_node, job.diff)
    /\ cpu_util_total__used_alloc_cores' =
           UsedAllocCoresTotal(cpu_util__node_used_alloc_cores')
    /\ cpu_mem__node_used_alloc_cores' = CpuMemPerNode(sp_node)
    /\ cpu_mem_total__used_alloc_cores' =
           UsedAllocCoresTotal(cpu_mem__node_used_alloc_cores')
    /\ IF job.gpus # 0
       THEN /\ gpu_util__node_util_index' = GpuUtilPerNode(sp_node)
            /\ gpu_util_total__util_gpus' = GpuUtilTotal(sp_node)
            /\ gpu_mem__node_used_total_index' = GpuMemPerNode(sp_node)
            /\ gpu_mem_total__used_alloc' = GpuMemTotal(gpu_mem__node_used_total_index')
       ELSE UNCHANGED <<gpu_util__node_util_index, gpu_util_total__util_gpus,
                        gpu_mem__node_used_total_index, gpu_mem_total__used_alloc>>
    /\ assigned' = assigned \cup AggregatesAssigned
    /\ report' = [listing |-> simple_output']
    /\ pc' = "listed"

\* report_job, lines 840-932, on a non-empty Sample Store, simple = False
report_job ==
    /\ pc = "constructed"
    /\ Len(sp_node) # 0
    /\ ~Raises(job, sp_node)
    /\ UNCHANGED <<job, sp_node, memvars, loopvars, sacct, issued, runvars>>
    /\ assigned' = assigned \cup AggregatesAssigned \cup DerivedAssigned
    /\ cpu_util__node_used_alloc_cores' = CpuUtilPerNode(sp_node, job.diff)
    /\ cpu_util_total__used_alloc_cores' =
           UsedAllocCoresTotal(cpu_util__node_used_alloc_cores')
    /\ cpu_mem__node_used_alloc_cores' = CpuMemPerNode(sp_node)
    /\ cpu_mem_total__used_alloc_cores' =
           UsedAllocCoresTotal(cpu_mem__node_used_alloc_cores')
    /\ IF job.gpus # 0
       THEN /\ gpu_util__node_util_index' = GpuUtilPerNode(sp_node)
            /\ gpu_util_total__util_gpus' = GpuUtilTotal(sp_node)
            /\ gpu_mem__node_used_total_index' = GpuMemPerNode(sp_node)
            /\ gpu_mem_total__used_alloc' = GpuMemTotal(gpu_mem__node_used_total_index')
       ELSE UNCHANGED <<gpu_util__node_util_index, gpu_util_total__util_gpus,
                        gpu_mem__node_used_total_index, gpu_mem_total__used_alloc>>
    /\ Rendering
    /\ pc' = "reported"

\* enhanced_output called again on the same object
enhanced_output ==
    /\ pc = "reported"
    /\ renders < MaxRenders
    /\ UNCHANGED <<pc, job, sp_node, memvars, loopvars, sacct, issued, runvars>>
    /\ UNCHANGED aggregates
    /\ assigned' = assigned \cup DerivedAssigned
    /\ Rendering

Init ==
    /\ pc = "constructed"
    /\ sp_node \in SampleStores
    /\ job \in Jobs(sp_node)
    /\ cpu_util__node_used_alloc_cores = Unset
    /\ cpu_util_total__used_alloc_cores = Unset
    /\ cpu_mem__node_used_alloc_cores = Unset
    /\ cpu_mem_total__used_alloc_cores = Unset
    /\ gpu_util__node_util_index = Unset
    /\ gpu_util_total__util_gpus = Unset
    /\ gpu_mem__node_used_total_index = Unset
    /\ gpu_mem_total__used_alloc = Unset
    /\ cpu_efficiency = Unset
    /\ gpu_utilization = Unset
    /\ time_efficiency = Unset
    /\ time_eff_violation = Unset
    /\ zero_gpu = Unset
    /\ zero_cpu = Unset
    /\ report = Unset
    /\ prev_report = Unset
    /\ renders = 0
    /\ mem_x = 0 /\ mem_y = 0 /\ rms_x = Unset /\ rms_y = Unset
    /\ stdout = <<>> /\ raised = NotRaised /\ queries = 0
    /\ assigned = {} /\ read = {}
    /\ args_job = <<1>> /\ jobid = 1 /\ sacct = FoundBy(job) /\ issued = <<>>

Next == report_job \/ enhanced_output

Spec == Init /\ [][Next]_vars

\* main, lines 987-1001, with or without the --simple option
ModeNext == report_job \/ report_job_simple \/ enhanced_output

ModeSpec == Init /\ [][ModeNext]_vars

(***************************************************************************)
(* report_job and enhanced_output on jobs drawn around the thresholds of   *)
(* the rules: every CPU efficiency from 0 to MaxEfficiency on a range of   *)
(* core counts, and run times and time limits on either side of the time   *)
(* efficiency bounds.                                                      *)
(***************************************************************************)
MaxEfficiency == 120

RuleCores == {1, 2, 4, 5, 10, 11, 32}

\* <<diff, timelimitraw>>: 900 s is 3 * min_runtime_seconds; 6000 s against
\* limits of 0, 50, 143, 144, 250 and 254 minutes is unlimited, 200% (shown
\* as 100), 70%, 69%, 40% and 39% of the limit.
RuleRunTimes ==
    { <<900, 1440>>, <<1000, 1440>> }
    \cup { <<6000, l>> : l \in {0, 50, 143, 144, 250, 254} }

\* One node of c cores that used e percent of diff * c CPU-seconds.
RuleNode(c, e, diff) ==
    [total_time |-> (e * c * diff) \div 100, cpus |-> c,
     used_memory |-> 1024, total_memory |-> 8192]

\* One node, two equal nodes, or one node with a GPU device.
RuleStores(c, e, diff) ==
    { << [node |-> Hostname(1), d |-> RuleNode(c, e, diff)] >>,
      << [node |-> Hostname(1), d |-> RuleNode(c, e, diff)],
         [node |-> Hostname(2), d |-> RuleNode(c, e, diff)] >>,
      << [node |-> Hostname(1),
          d |-> RuleNode(c, e, diff)
                @@ GpuKeys(0 :> [util |-> 90, used |-> 20480, total |-> 40960])] >> }

\* What sacct reports for the job of the store sp that ran rt[1] seconds
\* under a limit of rt[2] minutes.
RuleJobs(sp, rt) ==
    { [state |-> st, cluster |-> "della", partition |-> "gpu",
       jobname |-> "batch", qos |-> "normal", account |-> "other",
       diff |-> rt[1], timelimitraw |-> rt[2],
       nnodes |-> Len(sp), ncpus |-> StoreCores(sp), gpus |-> StoreGpus(sp)] :
        st \in {"COMPLETED", "TIMEOUT"} }

RuleInit ==
    /\ pc = "constructed"
    /\ \E c \in RuleCores, e \in 0..MaxEfficiency, rt \in RuleRunTimes :
          /\ sp_node \in RuleStores(c, e, rt[1])
          /\ job \in RuleJobs(sp_node, rt)
    /\ cpu_util__node_used_alloc_cores = Unset
    /\ cpu_util_total__used_alloc_cores = Unset
    /\ cpu_mem__node_used_alloc_cores = Unset
    /\ cpu_mem_total__used_alloc_cores = Unset
    /\ gpu_util__node_util_index = Unset
    /\ gpu_util_total__util_gpus = Unset
    /\ gpu_mem__node_used_total_index = Unset
    /\ gpu_mem_total__used_alloc = Unset
    /\ cpu_efficiency = Unset
    /\ gpu_utilization = Unset
    /\ time_efficiency = Unset
    /\ time_eff_violation = Unset
    /\ zero_gpu = Unset
    /\ zero_cpu = Unset
    /\ report = Unset
    /\ prev_report = Unset
    /\ renders = 0
    /\ mem_x = 0 /\ mem_y = 0 /\ rms_x = Unset /\ rms_y = Unset
    /\ stdout = <<>> /\ raised = NotRaised /\ queries = 0
    /\ assigned = {} /\ read = {}
    /\ args_job = <<1>> /\ jobid = 1 /\ sacct = FoundBy(job) /\ issued = <<>>

RuleSpec == RuleInit /\ [][Next]_vars

(***************************************************************************)
(* rounded_memory_with_safety on its own: the inputs are drawn by the      *)
(* initial predicate and the one action applies the function to both.      *)
(***************************************************************************)
suggest_memory ==
    /\ pc = "memory"
    /\ rms_x' = rounded_memory_with_safety(mem_x, MemDen)
    /\ rms_y' = rounded_memory_with_safety(mem_y, MemDen)
    /\ pc' = "suggested"
    /\ UNCHANGED <<job, sp_node, aggregates, derived, attrvars, report, prev_report,
                   renders,
                   mem_x, mem_y, runvars, loopvars, sacct, issued>>

MemInit ==
    /\ pc = "memory"
    /\ mem_x \in 0..MaxMemUnits
    /\ mem_y \in mem_x..MaxMemUnits
    /\ rms_x = Unset /\ rms_y = Unset
    /\ job = Unset
    /\ sp_node = <<>>
    /\ cpu_util__node_used_alloc_cores = Unset
    /\ cpu_util_total__used_alloc_cores = Unset
    /\ cpu_mem__node_used_alloc_cores = Unset
    /\ cpu_mem_total__used_alloc_cores = Unset
    /\ gpu_util__node_util_index = Unset
    /\ gpu_util_total__util_gpus = Unset
    /\ gpu_mem__node_used_total_index = Unset
    /\ gpu_mem_total__used_alloc = Unset
    /\ cpu_efficiency = Unset
    /\ gpu_utilization = Unset
    /\ time_efficiency = Unset
    /\ time_eff_violation = Unset
    /\ zero_gpu = Unset
    /\ zero_cpu = Unset
    /\ report = Unset
    /\ prev_report = Unset
    /\ renders = 0
    /\ stdout = <<>> /\ raised = NotRaised /\ queries = 0
    /\ assigned = {} /\ read = {}
    /\ args_job = <<1>> /\ jobid = 1 /\ sacct = Unset /\ issued = <<>>

MemNext == suggest_memory

MemSpec == MemInit /\ [][MemNext]_vars

(***************************************************************************)
(* The life of one JobStats object as main drives it: construction (job    *)
(* lookup through sacct, decoding of the cached payload, live query of the *)
(* metrics store) and then report_job or report_job_json.                  *)
(*                                                                         *)
(*   pc = "start"        main is about to construct the object             *)
(*   pc = "info"         __get_job_info has returned True                  *)
(*   pc = "query"        the store is empty and diff >= 2*SAMPLING_PERIOD  *)
(*   pc = "constructed"  __init__ has returned                             *)
(*   pc = "reported"     report_job has returned                           *)
(*   pc = "json"         report_job_json has returned and main printed it  *)
(*   pc = "aborted"      __init__ ended in error()                         *)
(*   pc = "failed"       report_job ended in error() or in an exception    *)
(***************************************************************************)
\* Run times around the two thresholds SAMPLING_PERIOD and 2*SAMPLING_PERIOD.
LifeDiffs == {0, 29, 30, 59, 60, 3600}

\* CPU side of a node, by core count
NodeCpu(c) == [total_time |-> 1700, cpus |-> c, used_memory |-> 1024, total_memory |-> 8192]

\* One device with its total memory
DeviceOf(mib) == [util |-> 90, used |-> 0, total |-> mib]

\* Stores of one node as the metrics store or a cached payload may hold them
\* for a job that asked for one or two GPUs: complete, with one of the three
\* device keys absent, with none of them, with zero cores, with zero device
\* memory, and with no device under the keys.
LifeGpuNodes ==
    LET full == GpuKeys(0 :> DeviceOf(40960))
    IN  { NodeCpu(1) @@ full,
          NodeCpu(1) @@ GpuKeysNoUtil(0 :> DeviceOf(40960)),
          NodeCpu(1) @@ [gpu_utilization |-> full.gpu_utilization,
                         gpu_used_memory |-> full.gpu_used_memory],
          NodeCpu(1) @@ [gpu_utilization |-> full.gpu_utilization,
                         gpu_total_memory |-> full.gpu_total_memory],
          NodeCpu(1),
          NodeCpu(0) @@ full,
          NodeCpu(1) @@ GpuKeys(0 :> DeviceOf(0)),
          NodeCpu(1) @@ GpuKeys((0 :> DeviceOf(40960)) @@ (1 :> DeviceOf(0))),
          NodeCpu(1) @@ GpuKeys(<<>>) }

\* <<store, GPUs the job asked for>>
LifeCases ==
    { <<(<<[node |-> Hostname(1), d |-> NodeCpu(1)]>>), 0>>,
      <<(<<[node |-> Hostname(1), d |-> NodeCpu(0)]>>), 0>> }
    \cup { <<(<<[node |-> Hostname(1), d |-> n]>>), 1>> : n \in LifeGpuNodes }
    \cup { <<(<<[node |-> Hostname(1), d |-> NodeCpu(1) @@ GpuKeys(0 :> DeviceOf(40960))],
               [node |-> Hostname(2), d |-> NodeCpu(1)]>>), 1>> }

\* AdminComment as sacct returns it.  present: the field is not empty;
\* js1: it starts with 'JS1:'; length: len(self.data); decodes: what
\* json.loads(gzip.decompress(base64.b64decode(...)))["nodes"] does on it.
Payload(present, js1, length, decodes, nodes) ==
    [present |-> present, js1 |-> js1, length |-> length,
     decodes |-> decodes, nodes |-> nodes]

None == Payload(FALSE, FALSE, 0, "nothing", <<>>)

DecodeErrors == {"binascii.Error", "BadGzipFile", "JSONDecodeError", "KeyError: 'nodes'"}

\* 'JS1:Short' and 'JS1:None' are what report_job_json(True) hands to the
\* job epilog for a short job and for a job without samples (lines 940-944).
Payloads(sp) ==
    { None,
      Payload(TRUE, FALSE, 24, "nothing", <<>>),
      Payload(TRUE, TRUE, 9, "binascii.Error", <<>>),
      Payload(TRUE, TRUE, 8, "BadGzipFile", <<>>),
      Payload(TRUE, TRUE, 400, "ok", sp),
      Payload(TRUE, TRUE, 60, "ok", <<>>) }
    \cup { Payload(TRUE, TRUE, 400, e, <<>>) : e \in DecodeErrors }

\* What sacct reports for a job of the case c.
LifeJobs(c) ==
    { [state |-> st, cluster |-> "della", partition |-> pt,
       jobname |-> "batch", qos |-> "normal", account |-> "other",
       diff |-> df, timelimitraw |-> 1440,
       nnodes |-> Len(c[1]), ncpus |-> Max(1, StoreCores(c[1])), gpus |-> c[2]] :
        st \in {"COMPLETED", "TIMEOUT", "RUNNING"}, pt \in {"gpu", "mig"},
        df \in LifeDiffs }

\* A decoding of every payload that starts with 'JS1:', whatever its length.
DecodeAttemptedAnyLength(data) == data.present /\ data.js1

\* __init__, line 103
DecodeAttempted(data) == data.present /\ data.js1 /\ data.length > 10

\* lines 104-108
Decoded(data) ==
    IF DecodeAttempted(data) /\ data.decodes = "ok" THEN data.nodes ELSE <<>>

DecodeLog(data) ==
    IF DecodeAttempted(data) /\ data.decodes # "ok"
    THEN << "ERROR: " \o data.decodes >> ELSE <<>>

\* A lookup that succeeds only on a numeric End.
LookupSucceedsNumericEnd(r) ==
    /\ r.ran /\ r.found
    /\ r.end = "numeric"
    /\ r.start = "numeric"

\* __get_job_info, lines 204-225: the lookup returns True
LookupSucceeds(r) ==
    /\ r.ran /\ r.found
    /\ r.end \in {"Unknown", "numeric"}
    /\ r.start = "numeric"

\* lines 204-211: the end time the object holds
EndOf(r) == IF r.end = "Unknown" THEN "time.time()" ELSE "int(End)"

\* lines 152, 164-166 and 83-88: the message of error()
LookupMessage(r) ==
    IF ~r.ran \/ ~r.found THEN "Failed to lookup jobid"
    ELSE "Failed to get details for job"

\* __init__ lines 82-88 with __get_job_info (143-225): sacct is run; an
\* unknown job id, a failing sacct or a job without numeric start and end
\* times end in error(); otherwise the attributes are set, data is the
\* AdminComment unless force_recalc (line 194).
get_job_info ==
    /\ pc = "start"
    /\ \E r \in SacctResults :
           /\ sacct' = r
           /\ IF LookupSucceeds(r)
              THEN /\ \E c \in LifeCases : \E j \in LifeJobs(c) :
                        \E data \in Payloads(c[1]) : \E force_recalc \in BOOLEAN :
                            /\ j.state = "RUNNING" <=> r.end = "Unknown"
                            /\ job' = j @@ [data |-> IF force_recalc THEN None
                                                     ELSE data,
                                            end |-> EndOf(r)]
                   /\ pc' = "info"
                   /\ UNCHANGED raised
              ELSE /\ raised' = LookupMessage(r)
                   /\ pc' = "aborted"
                   /\ UNCHANGED job
    /\ UNCHANGED <<sp_node, aggregates, derived, attrvars, report, prev_report,
                   renders,
                   memvars, loopvars, issued, stdout, queries>>

\* __init__ lines 103-110
decode_cache ==
    /\ pc = "info"
    /\ sp_node' = Decoded(job.data)
    /\ stdout' = stdout \o DecodeLog(job.data)
    /\ pc' = IF Len(sp_node') = 0 /\ job.diff >= 2 * SAMPLING_PERIOD
             THEN "query" ELSE "constructed"
    /\ UNCHANGED <<job, aggregates, derived, attrvars, report, prev_report,
                   renders,
                   memvars, loopvars, sacct, issued, raised, queries>>

\* get_data_out, lines 248-252: a device key exists on a node only once a
\* sample of one of its devices was returned
Queryable(sp) ==
    \A i \in 1..Len(sp) :
        \A key \in DOMAIN sp[i].d \cap {"gpu_utilization", "gpu_used_memory",
                                          "gpu_total_memory"} :
            DOMAIN sp[i].d[key] # {}

\* What the metrics store may hold for the job: nothing (expired), or the
\* samples of its nodes.
LiveStores ==
    { <<>> } \cup { c[1] : c \in { k \in LifeCases :
                                     /\ k[2] = job.gpus
                                     /\ Len(k[1]) = job.nnodes
                                     /\ Queryable(k[1]) } }

QueryErrors ==
    { "ERROR: Failed to query jobstats database",
      "ERROR: Failed to get run query",
      "ERROR: Unknown result when running query" }

\* get_job_stats, lines 290-293
CpuQueries == << "total_memory", "used_memory", "total_time", "cpus" >>

\* lines 297-299
GpuQueries == << "gpu_total_memory", "gpu_used_memory", "gpu_utilization" >>

\* Every job is asked for its GPUs.
MetricsQueriesWithGpus(j) == CpuQueries \o GpuQueries

\* lines 290-299: the get_data calls of one get_job_stats, in order
MetricsQueries(j) ==
    CpuQueries \o (IF j.gpus # 0 THEN GpuQueries ELSE <<>>)

\* __init__ lines 111-112 with get_job_stats (288-299), get_data (258-286)
\* and get_data_out (234-256)
get_job_stats ==
    /\ pc = "query"
    /\ queries' = queries + 1
    /\ \/ /\ sp_node' \in LiveStores
          /\ issued' = issued \o MetricsQueries(job)
          /\ pc' = "constructed"
          /\ UNCHANGED raised
       \/ /\ \E n \in 1..Len(MetricsQueries(job)) :
                issued' = issued \o SubSeq(MetricsQueries(job), 1, n)
          /\ raised' \in QueryErrors
          /\ pc' = "aborted"
          /\ UNCHANGED sp_node
    /\ UNCHANGED <<job, aggregates, derived, attrvars, report, prev_report,
                   renders,
                   memvars, loopvars, sacct, stdout>>

\* A threshold of two sampling periods, as line 111 has it.
ShorterThanTwoPeriods(j) == j.diff < 2 * SAMPLING_PERIOD

\* report_job, line 844
VeryShort(j) == j.diff < SAMPLING_PERIOD

\* report_job, lines 843-858: the Sample Store is empty
report_job_no_stats ==
    /\ pc = "constructed"
    /\ Len(sp_node) = 0
    /\ IF VeryShort(job)
       THEN \/ /\ stdout' = stdout \o << "Run time is very short so only providing seff output:",
                                        "seff output" >>
               /\ raised' = ""
            \/ /\ raised' = "No job statistics are available."
               /\ UNCHANGED stdout
       ELSE /\ raised' = "No stats found for job"
            /\ UNCHANGED stdout
    /\ pc' = "failed"
    /\ UNCHANGED <<job, sp_node, aggregates, derived, attrvars, report, prev_report,
                   renders,
                   memvars, loopvars, sacct, issued, queries>>

\* report_job, lines 860-932, on a non-empty Sample Store on which one of
\* its statements or one of enhanced_output raises
report_job_raises ==
    /\ pc = "constructed"
    /\ Len(sp_node) # 0
    /\ Raises(job, sp_node)
    /\ UNCHANGED <<job, sp_node, memvars, loopvars, sacct, issued, queries, report,
                   prev_report, renders,
                   zero_gpu, zero_cpu, read>>
    /\ assigned' = assigned \cup AssignedBeforeRaise(job, sp_node)
    /\ cpu_util__node_used_alloc_cores' = CpuUtilPerNode(sp_node, job.diff)
    /\ cpu_util_total__used_alloc_cores' =
           UsedAllocCoresTotal(cpu_util__node_used_alloc_cores')
    /\ cpu_mem__node_used_alloc_cores' = CpuMemPerNode(sp_node)
    /\ cpu_mem_total__used_alloc_cores' =
           UsedAllocCoresTotal(cpu_mem__node_used_alloc_cores')
    /\ IF job.gpus # 0
       THEN /\ gpu_util__node_util_index' = GpuUtilPerNode(sp_node)
            /\ gpu_util_total__util_gpus' = GpuUtilTotal(sp_node)
            /\ IF KeyErrorNodes(sp_node) # {}
               THEN /\ gpu_mem__node_used_total_index' =
                           GpuMemPerNodeBeforeKeyError(sp_node)
                    /\ UNCHANGED gpu_mem_total__used_alloc
               ELSE /\ gpu_mem__node_used_total_index' = GpuMemPerNode(sp_node)
                    /\ gpu_mem_total__used_alloc' =
                           GpuMemTotal(gpu_mem__node_used_total_index')
       ELSE UNCHANGED <<gpu_util__node_util_index, gpu_util_total__util_gpus,
                        gpu_mem__node_used_total_index, gpu_mem_total__used_alloc>>
    /\ IF RaisedBy(job, sp_node).exception = "KeyError"
       THEN UNCHANGED <<cpu_efficiency, gpu_utilization, time_efficiency,
                        time_eff_violation>>
       ELSE /\ time_eff_violation' = TimeEffViolation
            /\ time_efficiency' = IF TimeLimitApplies THEN TimeEfficiency
                                                      ELSE time_efficiency
            /\ cpu_efficiency' = CpuEfficiency'
            /\ gpu_utilization' = IF job.gpus # 0 /\ ~NoDeviceCounted(sp_node)
                                  THEN GpuUtilization' ELSE gpu_utilization
    /\ stdout' = stdout \o RaisedBy(job, sp_node).printed
    /\ raised' = RaisedBy(job, sp_node).exception
    /\ pc' = "failed"

\* main, lines 997-998, with report_job_json (938-948) and __str__ (931-936)
report_job_json ==
    /\ pc = "constructed"
    /\ \E encode \in BOOLEAN :
           stdout' = Append(stdout,
                            IF ~encode THEN "json document"
                            ELSE IF job.diff < 2 * SAMPLING_PERIOD THEN "Short"
                            ELSE IF Len(sp_node) = 0 THEN "None"
                            ELSE "base64 of gzip of json document")
    /\ pc' = "json"
    /\ UNCHANGED <<job, sp_node, aggregates, derived, attrvars, report, prev_report,
                   renders,
                   memvars, loopvars, sacct, issued, raised, queries>>

\* __init__, lines 66-72, before anything is looked up
NewObject ==
    /\ pc = "start"
    /\ job = Unset
    /\ sp_node = <<>>
    /\ cpu_util__node_used_alloc_cores = Unset
    /\ cpu_util_total__used_alloc_cores = Unset
    /\ cpu_mem__node_used_alloc_cores = Unset
    /\ cpu_mem_total__used_alloc_cores = Unset
    /\ gpu_util__node_util_index = Unset
    /\ gpu_util_total__util_gpus = Unset
    /\ gpu_mem__node_used_total_index = Unset
    /\ gpu_mem_total__used_alloc = Unset
    /\ cpu_efficiency = Unset
    /\ gpu_utilization = Unset
    /\ time_efficiency = Unset
    /\ time_eff_violation = Unset
    /\ zero_gpu = Unset
    /\ zero_cpu = Unset
    /\ report = Unset
    /\ prev_report = Unset
    /\ renders = 0
    /\ mem_x = 0 /\ mem_y = 0 /\ rms_x = Unset /\ rms_y = Unset
    /\ stdout = <<>> /\ raised = NotRaised /\ queries = 0
    /\ assigned = {} /\ read = {}
    /\ sacct = Unset /\ issued = <<>>

LifeInit ==
    /\ NewObject
    /\ args_job = <<1>> /\ jobid = 1

LifeNext ==
    \/ get_job_info
    \/ decode_cache
    \/ get_job_stats
    \/ report_job
    \/ report_job_raises
    \/ report_job_no_stats
    \/ report_job_json

LifeSpec == LifeInit /\ [][LifeNext]_vars

\* ---------------------------------------------------------------------
\* main (955-1001): one invocation with several job ids.  Every variable
\* but args_job and jobid describes the job of the current iteration.

MaxJobs == 2

\* A caller that goes on to the next job id whatever the last one did.
BodyCompletedOrFailed == pc \in {"reported", "json", "aborted", "failed"}

\* main, lines 989-1001: the loop body ran to its end; error() (127-134)
\* leaves main by sys.exit(1) or by an exception that main does not catch,
\* as does every other exception.
BodyCompleted == pc \in {"reported", "json"}

\* main, line 989: the for statement takes the next job id and line 990
\* constructs a new object for it
next_job ==
    /\ BodyCompleted
    /\ jobid < Len(args_job)
    /\ jobid' = jobid + 1
    /\ pc' = "start"
    /\ job' = Unset
    /\ sp_node' = <<>>
    /\ cpu_util__node_used_alloc_cores' = Unset
    /\ cpu_util_total__used_alloc_cores' = Unset
    /\ cpu_mem__node_used_alloc_cores' = Unset
    /\ cpu_mem_total__used_alloc_cores' = Unset
    /\ gpu_util__node_util_index' = Unset
    /\ gpu_util_total__util_gpus' = Unset
    /\ gpu_mem__node_used_total_index' = Unset
    /\ gpu_mem_total__used_alloc' = Unset
    /\ cpu_efficiency' = Unset
    /\ gpu_utilization' = Unset
    /\ time_efficiency' = Unset
    /\ time_eff_violation' = Unset
    /\ zero_gpu' = Unset
    /\ zero_cpu' = Unset
    /\ report' = Unset
    /\ prev_report' = Unset
    /\ renders' = 0
    /\ mem_x' = 0 /\ mem_y' = 0 /\ rms_x' = Unset /\ rms_y' = Unset
    /\ stdout' = <<>> /\ raised' = NotRaised /\ queries' = 0
    /\ assigned' = {} /\ read' = {}
    /\ sacct' = Unset /\ issued' = <<>>
    /\ UNCHANGED args_job

\* main, lines 956-989: the job ids of the command line; the loop starts
\* with the first
MainInit ==
    /\ NewObject
    /\ args_job \in { [k \in 1..n |-> k] : n \in 1..MaxJobs }
    /\ jobid = 1

MainNext == LifeNext \/ next_job

MainSpec == MainInit /\ [][MainNext]_vars

(***************************************************************************)
(* Properties of the report.                                               *)
(***************************************************************************)
Rendered == pc = "reported"

NotesOfRule(r) == SelectSeq(report.notes, LAMBDA n : n.rule = r)
HasNote(r) == NotesOfRule(r) # <<>>

\* The rules 1-13 that left a note in the report.
DiagnosticRulesFired == { r \in 1..13 : HasNote(r) }

\* C1: whenever the zero-GPU note (rule 1) is in the report, neither the
\* MIG-suitability note (rule 2) nor the low-GPU-utilization note (rule 4) is.
C1_ZeroGpuExcludesMigAndLowGpu ==
    (Rendered /\ HasNote(1)) => (~HasNote(2) /\ ~HasNote(4))

\* The zero-GPU note on a job whose overall GPU utilization is at most 15%.
C1_Witness ==
    /\ Rendered
    /\ HasNote(1)
    /\ job.gpus = 2
    /\ GpuUtilAtMost(gpu_utilization_red)
    /\ GpuUtilAbove(0)

\* The nodes of the Sample Store that used no CPU time.
IdleNodes == { i \in 1..Len(sp_node) : sp_node[i].d.total_time = 0 }

MultiNodeCpuJobWithIdleNode ==
    /\ Rendered
    /\ job.nnodes > 1
    /\ job.gpus = 0
    /\ job.diff > 300
    /\ IdleNodes # {}

\* C2: a multi-node job without GPUs that ran more than 300 s and has a node
\* with 0 CPU-seconds gets exactly one bold-red "did not use N of M nodes"
\* note, N the nodes with used = 0 and M the node count; zero_cpu is set and
\* the low-CPU-utilization note (rule 5) is absent, whatever the efficiency.
C2_IdleNodesNote ==
    MultiNodeCpuJobWithIdleNode =>
        /\ NotesOfRule(3) = << Note(3, "bold-red", "N of M nodes",
                                    <<Cardinality(IdleNodes), Len(sp_node)>>) >>
        /\ zero_cpu = TRUE
        /\ ~HasNote(5)

\* Such a job whose overall CPU efficiency is in the red range of rule 5.
C2_Witness ==
    /\ MultiNodeCpuJobWithIdleNode
    /\ Cardinality(IdleNodes) = 1
    /\ cpu_efficiency < cpu_utilization_red
    /\ HasNote(3)

\* C3 as stated: for a TIMEOUT job the timeout note is the only one of the
\* notes of rules 1-13 in the report.
C3_OnlyTimeoutNote ==
    (Rendered /\ job.state = "TIMEOUT") => DiagnosticRulesFired = {9}

\* C3: for a TIMEOUT job the timeout note is in the report exactly once,
\* whatever the utilization, and neither the out-of-memory note (rule 8) nor
\* the excess-time-limit note (rule 10) is; the other rules still apply.
C3_TimeoutNoteAlways ==
    (Rendered /\ job.state = "TIMEOUT") =>
        /\ NotesOfRule(9) = << Note(9, "bold-red", "timeout", <<>>) >>
        /\ ~HasNote(8)
        /\ ~HasNote(10)

\* A TIMEOUT job with the zero-GPU note next to the timeout note.
C3_Witness ==
    /\ Rendered
    /\ job.state = "TIMEOUT"
    /\ zero_gpu = TRUE
    /\ HasNote(1)
    /\ HasNote(9)

InPercentRange(x) == x \in 0..100

\* C4: every percentage the report shows (CPU efficiency, CPU memory
\* efficiency, GPU utilization, GPU memory usage, time efficiency) is in
\* [0, 100], also when the used amount exceeds the allocated one.
C4_PercentagesWithinRange ==
    Rendered =>
        /\ InPercentRange(report.meters.cpu.x)
        /\ InPercentRange(report.meters.cpu_mem.x)
        /\ (job.gpus # 0 /\ job.partition # "mig") => InPercentRange(report.meters.gpu.x)
        /\ job.gpus # 0 => InPercentRange(report.meters.gpu_mem.x)
        /\ \A i \in 1..Len(NotesOfRule(10)) : InPercentRange(NotesOfRule(10)[i].args[1])

\* The devices of the Sample Store, as <<node index, device index>>.
Devices ==
    UNION { { <<i, g>> : g \in DOMAIN sp_node[i].d.gpu_total_memory } :
              i \in { k \in 1..Len(sp_node) : "gpu_total_memory" \in DOMAIN sp_node[k].d } }

RECURSIVE SumOverDevices(_, _)
SumOverDevices(key, S) ==
    IF S = {} THEN 0
    ELSE LET dev == CHOOSE x \in S : TRUE
         IN  sp_node[dev[1]].d[key][dev[2]] + SumOverDevices(key, S \ {dev})

\* The <<used, total>> memory of the devices, as a set.
DeviceMemories ==
    { <<sp_node[dev[1]].d.gpu_used_memory[dev[2]],
        sp_node[dev[1]].d.gpu_total_memory[dev[2]]>> : dev \in Devices }

\* C5: the GPU memory usage shown is round(100 * sum(used) / sum(total)) over
\* all the devices, not the mean of the per-device ratios; two devices with
\* (used, total) in the proportions (1, 10) and (9, 10) show 50.
C5_GpuMemoryIsRatioOfSums ==
    (Rendered /\ job.gpus # 0) =>
        /\ report.meters.gpu_mem.x =
               RoundHalfEven(100 * SumOverDevices("gpu_used_memory", Devices),
                             SumOverDevices("gpu_total_memory", Devices))
        /\ (job.gpus = 2 /\ DeviceMemories = { <<1024, 10240>>, <<9216, 10240>> })
               => report.meters.gpu_mem.x = 50

\* Two devices of different sizes: 10240 of 40960 MiB is 25%, where the mean
\* of 10% and 30% would be 20%.
C5_Witness ==
    /\ Rendered
    /\ job.gpus = 2
    /\ DeviceMemories = { <<1024, 10240>>, <<9216, 30720>> }
    /\ report.meters.gpu_mem.x = 25

Suggested == pc = "suggested"

\* C6: rounded_memory_with_safety is monotone non-decreasing: x <= y gives
\* rounded_memory_with_safety(x) <= rounded_memory_with_safety(y), across the
\* bucket boundaries 30, 100, 1000 and the rounding ties 35, 45, 105, 1050.
C6_Monotone ==
    (Suggested /\ mem_x <= mem_y) => rms_x <= rms_y

\* A pair on the two sides of the bucket boundary 100 whose lower member is
\* rounded down and corrected: margins 95 and 101.
C6_Witness ==
    /\ Suggested
    /\ mem_x < mem_y
    /\ MemWithSafety(mem_x, MemDen) = 95
    /\ MemWithSafety(mem_y, MemDen) = 101
    /\ rms_x = 100
    /\ rms_y = 110

\* C7: rounded_memory_with_safety(x) >= max(1, ceil(1.2 * x)), the suggestion
\* is never below the margin: 50 gives 60 and 834 gives 1100.
C7_NeverBelowMargin ==
    Suggested =>
        /\ rms_x >= Max(1, CeilDiv(12 * mem_x, 10 * MemDen))
        /\ mem_x = 50 * MemDen => rms_x = 60
        /\ mem_x = 834 * MemDen => rms_x = 1100

\* 834 GB: the margin 1001 rounds down to 1000 and is corrected to 1100.
C7_Witness ==
    /\ Suggested
    /\ mem_x = 834 * MemDen
    /\ CeilDiv(12 * mem_x, 10 * MemDen) = 1001
    /\ rms_x = 1100

\* Scenario A: 1 node, 1 core, no GPUs, run time 3600 s, 3600 CPU-seconds
\* used, 8 GB of memory allocated and 1 GB used.
ScenarioA ==
    /\ Rendered
    /\ Len(sp_node) = 1
    /\ job.nnodes = 1
    /\ job.ncpus = 1
    /\ job.gpus = 0
    /\ job.diff = 3600
    /\ sp_node[1].d = [total_time |-> 3600, cpus |-> 1,
                       used_memory |-> 1 * MiBPerGiB, total_memory |-> 8 * MiBPerGiB]

\* The conditions of rule 13 on the cluster, the partition and the job state.
OverAllocationNoteApplies ==
    /\ job.cluster \in {"adroit", "della", "stellar", "tiger", "traverse"}
    /\ job.partition \notin {"datascience", "mig"}
    /\ job.state # "OUT_OF_MEMORY"

ScenarioAReport(memory_efficiency) ==
    /\ cpu_efficiency = 100
    /\ report.meters.cpu.x = 100
    /\ report.meters.cpu_mem.x = memory_efficiency
    /\ ~HasNote(1)
    /\ ~HasNote(3)
    /\ HasNote(13) <=> OverAllocationNoteApplies
    /\ \A i \in 1..Len(NotesOfRule(13)) : NotesOfRule(13)[i].args[1] = memory_efficiency

\* C8 as stated: in Scenario A the CPU efficiency is 100, the CPU memory
\* efficiency is 13, no zero-utilization note is in the report and the
\* over-allocation note is when the cluster and partition conditions hold.
C8_ScenarioA_Thirteen == ScenarioA => ScenarioAReport(13)

\* C8: in Scenario A the CPU efficiency is 100, the CPU memory efficiency is
\* 12 (round() takes the half 12.5 to the even 12), no zero-utilization note
\* is in the report and the over-allocation note is exactly when the cluster
\* and partition conditions of rule 13 hold.
C8_ScenarioA_Twelve == ScenarioA => ScenarioAReport(12)

\* Scenario A on a della CPU partition, with the over-allocation note.
C8_Witness ==
    /\ ScenarioA
    /\ OverAllocationNoteApplies
    /\ HasNote(13)
    /\ report.meters.cpu_mem.x = 12

\* The nodes of the Sample Store without the gpu_utilization key.
NodesWithoutUtilKey ==
    { sp_node[i].node : i \in { k \in 1..Len(sp_node) :
                                  "gpu_utilization" \notin DOMAIN sp_node[k].d } }

\* C9: whenever the synthetic utilization 50 stands in for a node without the
\* gpu_utilization key, the GPU utilization is shown as unknown and no
\* per-device line shows the 50, on every partition.
C9_SyntheticUtilizationNeverShown ==
    (Rendered /\ job.gpus # 0 /\ NodesWithoutUtilKey # {}) =>
        /\ report.meters.gpu = [unknown |-> TRUE]
        /\ \A i \in 1..Len(report.listing.gpu_util) :
               LET line == report.listing.gpu_util[i]
               IN  (line.node \in NodesWithoutUtilKey) => "util" \notin DOMAIN line

\* C10: calling enhanced_output a second time on the same object gives the
\* same report as the first call.
C10_RenderingIdempotent ==
    (Rendered /\ renders >= 2) => report = prev_report

\* A second rendering of a GPU job whose report carries notes, among them
\* the excess-time-limit note that reads the state the first call wrote.
C10_Witness ==
    /\ Rendered
    /\ renders = 2
    /\ job.gpus # 0
    /\ time_eff_violation = TRUE
    /\ HasNote(10)
    /\ Len(report.notes) >= 2

\* The devices of the Sample Store that report a utilization of 0.
IdleDevices ==
    UNION { { <<i, g>> : g \in { h \in DOMAIN sp_node[i].d.gpu_utilization :
                                   sp_node[i].d.gpu_utilization[h] = 0 } } :
              i \in { k \in 1..Len(sp_node) : "gpu_utilization" \in DOMAIN sp_node[k].d } }

\* The conditions of the rule table that the table states in full, on the
\* job metadata and the Sample Store.
TableCondition(r) ==
    CASE r = 1 -> job.gpus # 0 /\ job.diff > 300 /\ IdleDevices # {}
      [] r = 3 -> job.diff > 300 /\ IdleNodes # {}
      [] r = 6 -> /\ job.nnodes > 1
                  /\ job.ncpus < 16 * job.nnodes
                  /\ SumSeq([i \in 1..Len(sp_node) |-> sp_node[i].d.used_memory])
                         < 128 * 1024 * job.nnodes
                  /\ job.gpus = 0
      [] r = 8 -> job.state = "OUT_OF_MEMORY"
      [] r = 9 -> job.state = "TIMEOUT"

RulesStatedInFull == {1, 3, 6, 8, 9}

NormalBeforeBoldRed(i, j) ==
    /\ i < j
    /\ report.notes[i].style = "normal"
    /\ report.notes[j].style = "bold-red"

\* C12 as stated: no note styled normal comes before a note styled bold-red.
C12_SeverityFirst ==
    Rendered => \A i, j \in 1..Len(report.notes) : ~NormalBeforeBoldRed(i, j)

\* C12: the only note styled normal that comes before a note styled bold-red
\* is the low-CPU-utilization note of rule 5 (efficiency from 65 to below 80
\* on more than one core); the bold-red note after it is of rules 6 to 10.
C12_SeverityFirstButRule5 ==
    Rendered => \A i, j \in 1..Len(report.notes) :
        NormalBeforeBoldRed(i, j) =>
            /\ report.notes[i].rule = 5
            /\ report.notes[j].rule \in 6..10
            /\ cpu_efficiency \in cpu_utilization_red..(cpu_utilization_black - 1)
            /\ job.ncpus > 1

\* The rule 5 note styled normal, then the bold-red note of rule 6.
C12_Witness ==
    /\ Rendered
    /\ \E i, j \in 1..Len(report.notes) :
          /\ NormalBeforeBoldRed(i, j)
          /\ report.notes[i].rule = 5
          /\ report.notes[j].rule = 6

\* C13 as stated: with the rule 1 note in the report neither the rule 4 note
\* nor the TIMEOUT note (rule 9) is, and with the rule 3 note in the report
\* the OUT_OF_MEMORY note (rule 8) is not.
C13_SuppressionColumn ==
    Rendered =>
        /\ HasNote(1) => (zero_gpu = TRUE /\ ~HasNote(4) /\ ~HasNote(9))
        /\ HasNote(3) => (zero_cpu = TRUE /\ ~HasNote(8))

\* C13: with the rule 1 note in the report (zero_gpu set) the rule 4 note is
\* not; the TIMEOUT note (rule 9) and the OUT_OF_MEMORY note (rule 8) depend
\* on the job state alone, whatever zero_gpu and zero_cpu are.
C13_OnlyRule4Suppressed ==
    Rendered =>
        /\ HasNote(1) => (zero_gpu = TRUE /\ ~HasNote(4))
        /\ HasNote(3) => zero_cpu = TRUE
        /\ HasNote(9) <=> job.state = "TIMEOUT"
        /\ HasNote(8) <=> job.state = "OUT_OF_MEMORY"

\* A GPU job out of memory that used neither a GPU nor the CPU.
C13_Witness ==
    /\ Rendered
    /\ job.state = "OUT_OF_MEMORY"
    /\ zero_gpu = TRUE
    /\ zero_cpu = TRUE
    /\ HasNote(1)
    /\ HasNote(3)
    /\ HasNote(8)

RECURSIVE SumOverNodes(_, _)
\* The sum of f[i] over the node indices in S.
SumOverNodes(f, S) ==
    IF S = {} THEN 0
    ELSE LET i == CHOOSE x \in S : TRUE
         IN  f[i] + SumOverNodes(f, S \ {i})

StoreNodes == 1..Len(sp_node)

\* C14: after report_job on a non-empty Sample Store, each node's allocated
\* CPU seconds are diff times its core count, the cluster-wide CPU-time and
\* CPU-memory tuples are (sum of used, sum of allocated/total, sum of core
\* counts), and the per-node lists have exactly one entry per node.
C14_CpuAggregation ==
    Rendered =>
        /\ Len(cpu_util__node_used_alloc_cores) = Len(sp_node)
        /\ Len(cpu_mem__node_used_alloc_cores) = Len(sp_node)
        /\ \A i \in StoreNodes :
              /\ cpu_util__node_used_alloc_cores[i] =
                     <<sp_node[i].node, sp_node[i].d.total_time,
                       job.diff * sp_node[i].d.cpus, sp_node[i].d.cpus>>
              /\ cpu_mem__node_used_alloc_cores[i] =
                     <<sp_node[i].node, sp_node[i].d.used_memory,
                       sp_node[i].d.total_memory, sp_node[i].d.cpus>>
        /\ cpu_util_total__used_alloc_cores =
               <<SumOverNodes([i \in StoreNodes |-> sp_node[i].d.total_time], StoreNodes),
                 SumOverNodes([i \in StoreNodes |-> job.diff * sp_node[i].d.cpus], StoreNodes),
                 SumOverNodes([i \in StoreNodes |-> sp_node[i].d.cpus], StoreNodes)>>
        /\ cpu_mem_total__used_alloc_cores =
               <<SumOverNodes([i \in StoreNodes |-> sp_node[i].d.used_memory], StoreNodes),
                 SumOverNodes([i \in StoreNodes |-> sp_node[i].d.total_memory], StoreNodes),
                 SumOverNodes([i \in StoreNodes |-> sp_node[i].d.cpus], StoreNodes)>>

\* Two nodes that used different amounts of CPU time.
C14_Witness ==
    /\ Rendered
    /\ Len(sp_node) = 2
    /\ sp_node[1].d.total_time = 1700
    /\ sp_node[2].d.total_time = 3600
    /\ cpu_util_total__used_alloc_cores[1] = 5300

\* The entries of the per-node utilization list that name the node.
UtilEntriesOf(node) ==
    SelectSeq(gpu_util__node_util_index, LAMBDA e : e[1] = node)

\* The utilization entries of node i of the Sample Store, when it has the key.
MeasuredEntriesOf(i) ==
    { <<sp_node[i].node, sp_node[i].d.gpu_utilization[g], g>> :
        g \in DOMAIN sp_node[i].d.gpu_utilization }

UtilizedDevices ==
    UNION { { <<i, g>> : g \in DOMAIN sp_node[i].d.gpu_utilization } :
              i \in { k \in StoreNodes : "gpu_utilization" \in DOMAIN sp_node[k].d } }

\* C15: the cluster-wide GPU utilization is the sum of the per-device
\* utilizations over the number of devices when every node has the
\* utilization key; a node without the key gets exactly one entry
\* (node, 50, 0) in the per-node list, and the cluster-wide result is then
\* (50, 1), not an average of the measured devices.
C15_GpuUtilizationAggregation ==
    (Rendered /\ job.gpus # 0) =>
        /\ \A i \in StoreNodes :
              IF "gpu_utilization" \in DOMAIN sp_node[i].d
              THEN /\ Len(UtilEntriesOf(sp_node[i].node))
                          = Cardinality(DOMAIN sp_node[i].d.gpu_utilization)
                   /\ { UtilEntriesOf(sp_node[i].node)[k] :
                          k \in 1..Len(UtilEntriesOf(sp_node[i].node)) }
                          = MeasuredEntriesOf(i)
              ELSE UtilEntriesOf(sp_node[i].node) = << <<sp_node[i].node, 50, 0>> >>
        /\ IF NodesWithoutUtilKey = {}
           THEN gpu_util_total__util_gpus =
                    <<SumOverDevices("gpu_utilization", UtilizedDevices),
                      Cardinality(UtilizedDevices)>>
           ELSE gpu_util_total__util_gpus = <<50, 1>>
        /\ gpu_utilization = gpu_util_total__util_gpus

\* Two nodes, one with a measured device and one without the key.
C15_Witness ==
    /\ Rendered
    /\ job.gpus = 2
    /\ Len(sp_node) = 2
    /\ "gpu_utilization" \in DOMAIN sp_node[1].d
    /\ sp_node[1].d.gpu_utilization[0] = 90
    /\ "gpu_utilization" \notin DOMAIN sp_node[2].d
    /\ gpu_util_total__util_gpus = <<50, 1>>
    /\ Len(gpu_util__node_util_index) = 2

(***************************************************************************)
(* Degenerate Sample Stores.                                               *)
(***************************************************************************)
ReportJobReturned == pc \in {"reported", "failed"} /\ Len(sp_node) # 0

DeviceKeys == {"gpu_total_memory", "gpu_used_memory", "gpu_utilization"}

\* Some node has no entry under one of the three device keys.
NodeWithoutDeviceKey ==
    \E i \in 1..Len(sp_node) : ~(DeviceKeys \subseteq DOMAIN sp_node[i].d)

\* Some node has no allocated CPU seconds (diff * cpus) or no cores.
NodeWithoutAllocation ==
    \E i \in 1..Len(sp_node) : job.diff * sp_node[i].d.cpus = 0 \/ sp_node[i].d.cpus = 0

\* All devices report a total memory of 0, or no device is listed at all.
NoGpuTotals ==
    /\ ~NodeWithoutDeviceKey
    /\ \/ \A i \in 1..Len(sp_node) : \A g \in DOMAIN sp_node[i].d.gpu_total_memory :
              sp_node[i].d.gpu_total_memory[g] = 0
       \/ \A i \in 1..Len(sp_node) : DOMAIN sp_node[i].d.gpu_utilization = {}

\* C16: for a GPU job with a non-empty Sample Store in which a node lacks a
\* device key, has no allocated CPU seconds or cores, or whose devices sum to
\* no total memory or to no device, report_job returns with a complete
\* report and without an exception.  The program does not satisfy this: the
\* loop of lines 920-929 raises KeyError and lines 353, 816 and 826 raise
\* ZeroDivisionError.
C16_DegenerateStoresTolerated ==
    (ReportJobReturned /\ job.gpus # 0
        /\ (NodeWithoutDeviceKey \/ NodeWithoutAllocation \/ NoGpuTotals))
    => (pc = "reported" /\ raised = NotRaised /\ report # Unset)

(***************************************************************************)
(* Short jobs and the empty Sample Store.                                  *)
(***************************************************************************)
Constructed == pc \in {"constructed", "reported", "failed", "json"}

\* report_job took the seff path of a job shorter than one sampling window:
\* it printed the seff output, or seff itself could not be run.
SeffFallback ==
    /\ pc = "failed"
    /\ \/ /\ raised = ""
          /\ stdout # <<>>
          /\ stdout[Len(stdout)] = "seff output"
       \/ raised = "No job statistics are available."

\* C17: a job whose run time diff is below 2 * SAMPLING_PERIOD has an empty
\* Sample Store once constructed, cached payload or not, and report_job
\* reports it as too short to measure.  The program does not satisfy this: a
\* cached payload is decoded whatever diff is, and from SAMPLING_PERIOD on
\* report_job ends in the "No stats found" error instead.
C17_ShortJobsNeverMeasured ==
    (Constructed /\ job.diff < 2 * SAMPLING_PERIOD)
    => /\ Len(sp_node) = 0
       /\ pc \in {"reported", "failed"} => SeffFallback

\* What a sequence holds
Range(seq) == { seq[i] : i \in 1..Len(seq) }

NothingAggregated ==
    /\ cpu_util__node_used_alloc_cores = Unset
    /\ cpu_util_total__used_alloc_cores = Unset
    /\ cpu_mem__node_used_alloc_cores = Unset
    /\ cpu_mem_total__used_alloc_cores = Unset
    /\ gpu_util__node_util_index = Unset
    /\ gpu_util_total__util_gpus = Unset
    /\ gpu_mem__node_used_total_index = Unset
    /\ gpu_mem_total__used_alloc = Unset

NothingRendered ==
    /\ report = Unset
    /\ renders = 0
    /\ cpu_efficiency = Unset
    /\ gpu_utilization = Unset
    /\ zero_gpu = Unset
    /\ zero_cpu = Unset

\* C18: report_job on an empty Sample Store never aggregates or renders.  It
\* ends in error(): for diff < SAMPLING_PERIOD after running seff (its output
\* is printed, or "No job statistics are available." when seff cannot be
\* run), and for every other diff with the "No stats found" message and
\* nothing printed.
C18_EmptyStoreNeverAggregated ==
    (pc \in {"reported", "failed"} /\ Len(sp_node) = 0)
    => /\ pc = "failed"
       /\ NothingAggregated
       /\ NothingRendered
       /\ IF job.diff < SAMPLING_PERIOD
          THEN SeffFallback
          ELSE raised = "No stats found for job" /\ "seff output" \notin Range(stdout)

\* A job of 29 s without samples got the seff output.
C18_Witness ==
    /\ pc = "failed"
    /\ Len(sp_node) = 0
    /\ job.diff = 29
    /\ raised = ""
    /\ stdout = << "Run time is very short so only providing seff output:",
                   "seff output" >>
    /\ NothingAggregated

(***************************************************************************)
(* Cached payloads that do not decode.                                     *)
(***************************************************************************)
\* Lines 103-110 have been executed.
PastDecode ==
    \/ pc \in {"query", "constructed", "reported", "failed", "json"}
    \/ pc = "aborted" /\ queries > 0

\* The AdminComment starts with 'JS1:' and what follows is not the base64 of
\* the gzip of a JSON document with a "nodes" key.
CorruptPayload == job.data.present /\ job.data.js1 /\ job.data.decodes \in DecodeErrors

DecodeFailureLogged == \E e \in DecodeErrors : ("ERROR: " \o e) \in Range(stdout)

LiveQueryIssued == pc = "query" \/ queries > 0

\* C19 as stated: a payload that starts with 'JS1:' and fails to decode does
\* not abort construction (construction ends in error() only through the
\* live query), the failure is logged, the store is empty when the query is
\* issued, and the query is issued.
C19_DecodeFailureRequeries ==
    (PastDecode /\ CorruptPayload)
    => /\ pc = "aborted" => raised \in QueryErrors
       /\ DecodeFailureLogged
       /\ LiveQueryIssued
       /\ pc = "query" => Len(sp_node) = 0

\* C19, amended: the decoding is attempted, and its failure printed as
\* "ERROR: ...", exactly when the payload is longer than 10 characters; the
\* failure never ends construction, the store is empty after it, and the live
\* query is issued exactly when diff >= 2 * SAMPLING_PERIOD: a shorter job is
\* constructed with an empty store and without a query.
C19_DecodeFailureRequeriesLongJobs ==
    (PastDecode /\ CorruptPayload)
    => /\ pc = "aborted" => raised \in QueryErrors
       /\ DecodeFailureLogged <=> job.data.length > 10
       /\ LiveQueryIssued <=> job.diff >= 2 * SAMPLING_PERIOD
       /\ pc = "query" => Len(sp_node) = 0
       /\ job.diff < 2 * SAMPLING_PERIOD => Len(sp_node) = 0 /\ queries = 0

\* A payload that is not JSON was logged and the live query filled the store.
C19_Witness ==
    /\ pc = "constructed"
    /\ CorruptPayload
    /\ job.data.decodes = "JSONDecodeError"
    /\ job.diff = 3600
    /\ stdout = << "ERROR: JSONDecodeError" >>
    /\ queries = 1
    /\ Len(sp_node) = 1

(***************************************************************************)
(* Output before a fatal condition.                                        *)
(***************************************************************************)
\* The messages error() is called with: lookup failure, query failure, data
\* unavailable, and the empty message of the very-short-runtime path.
FatalConditions ==
    {"Failed to lookup jobid", "Failed to get details for job"}
    \cup QueryErrors
    \cup {"No stats found for job", "No job statistics are available.", ""}

IsDecodeLog(line) == \E e \in DecodeErrors : line = "ERROR: " \o e

\* What was printed, the log lines of the payload decoding left aside.
PrintedOutput == SelectSeq(stdout, LAMBDA line : ~IsDecodeLog(line))

\* C20: a run that ends in a fatal condition has printed nothing before the
\* error and has produced no report, also on the very-short-runtime path of
\* report_job.  The program does not satisfy this: lines 850-852 print the
\* seff output and then call error("").
C20_NothingPrintedBeforeFatal ==
    (pc \in {"aborted", "failed"} /\ raised \in FatalConditions)
    => PrintedOutput = <<>> /\ report = Unset

(***************************************************************************)
(* The rules on their thresholds.                                          *)
(***************************************************************************)
\* min(100, round(100 * diff / (60 * time limit in minutes)))
RequestedTimeUsed ==
    LET r == RoundHalfEven(100 * job.diff, SECONDS_PER_MINUTE * job.timelimitraw)
    IN  IF r > 100 THEN 100 ELSE r

RequestedTooMuchTime ==
    /\ job.state = "COMPLETED"
    /\ job.timelimitraw > 0
    /\ RequestedTimeUsed < time_efficiency_black
    /\ job.diff > 3 * min_runtime_seconds

\* C24: the "requested too much time" note (rule 10) is emitted exactly for
\* a COMPLETED job with a time limit > 0 whose time efficiency is below 70
\* and whose run time is above 900 s; the note is bold-red exactly when the
\* time efficiency is below 40 and normal otherwise; time_eff_violation is
\* false for every other job state.
C24_RequestedTooMuchTimeNote ==
    Rendered
    => /\ HasNote(10) <=> RequestedTooMuchTime
       /\ Len(NotesOfRule(10)) <= 1
       /\ \A n \in Range(NotesOfRule(10)) :
             /\ n.style = IF RequestedTimeUsed < time_efficiency_red
                          THEN "bold-red" ELSE "normal"
             /\ n.args[1] = RequestedTimeUsed
       /\ job.state # "COMPLETED" => time_eff_violation = FALSE
       /\ time_eff_violation = RequestedTooMuchTime

\* 6000 s under a limit of 144 minutes: 69%, a normal note.
C24_Witness ==
    /\ Rendered
    /\ job.state = "COMPLETED"
    /\ job.diff = 6000
    /\ job.timelimitraw = 144
    /\ time_efficiency = 69
    /\ \E i \in 1..Len(report.notes) :
           report.notes[i].rule = 10 /\ report.notes[i].style = "normal"

SingleNodeMultiCoreCpuJob == job.nnodes = 1 /\ job.ncpus > 1 /\ job.gpus = 0

\* C25 as stated: the "may be single-core code" note (rule 12) is emitted
\* exactly for single-node, multi-core, no-GPU jobs whose ratio
\* cpu_efficiency / (100 / ncpus) lies between 0.85 and 1.15.
C25_SerialNoteWithinFifteenPercent ==
    Rendered
    => (HasNote(12) <=> /\ SingleNodeMultiCoreCpuJob
                        /\ cpu_efficiency * job.ncpus > 85
                        /\ cpu_efficiency * job.ncpus < 115)

\* C25, amended: the note is emitted exactly for single-node, multi-core,
\* no-GPU jobs whose ratio cpu_efficiency / (100 / ncpus), computed in double
\* precision, is strictly above 0.85 and strictly below 1.1: from 15% below
\* to 10% above 100 / ncpus, both ends excluded.  The double quotient is
\* below 1.1 where the exact one equals it for 11 cores at 10%.
C25_SerialNoteBelowTenPercentAbove ==
    Rendered
    => (HasNote(12) <=> /\ SingleNodeMultiCoreCpuJob
                        /\ cpu_efficiency * job.ncpus > 85
                        /\ \/ cpu_efficiency * job.ncpus < 110
                           \/ cpu_efficiency = 10 /\ job.ncpus = 11)

\* Two cores at 54%: a ratio of 1.08, with the note; the neighbouring ratio
\* 1.12 (56%) has none.
C25_Witness ==
    /\ Rendered
    /\ SingleNodeMultiCoreCpuJob
    /\ job.ncpus = 2
    /\ cpu_efficiency = 54
    /\ HasNote(12)

(***************************************************************************)
(* The meters against the thresholds of the rules.                         *)
(***************************************************************************)
\* The threshold condition of rule 4 (line 504): gpu_utilization <= 15
Rule4Threshold == gpu_utilization[1] <= gpu_utilization_red * gpu_utilization[2]

\* The condition under which the note of rule 5 is bold-red (line 521)
Rule5BoldRed == cpu_efficiency < cpu_utilization_red

\* C26: the meters are red on the thresholds of the rules.  The GPU
\* utilization meter (drawn unless the partition is "mig") is red exactly
\* when the threshold condition of rule 4 holds, and the CPU utilization
\* meter of a job without GPUs is red exactly when rule 5 is bold-red.  The
\* program does not satisfy the first: draw_meter tests round(x) < 15.
C26_MetersMatchRuleThresholds ==
    Rendered
    => /\ (job.gpus # 0 /\ job.partition # "mig")
              => (report.meters.gpu.red <=> Rule4Threshold)
       /\ job.gpus = 0 => (report.meters.cpu.red <=> Rule5BoldRed)

(***************************************************************************)
(* Attributes are assigned before job_notes reads them.                    *)
(***************************************************************************)
\* gpu_utilization, the per-device list and the GPU memory totals
GpuAttributesOfNotes ==
    {"gpu_utilization", "gpu_util__node_util_index", "gpu_mem_total__used_alloc"}

\* C27: whenever job_notes has run, every attribute it read had been
\* assigned before; cpu_efficiency and time_eff_violation are assigned on
\* every such path; the GPU attributes are read only for jobs that asked for
\* GPUs, for which aggregation and enhanced_output have assigned them; and
\* with simple = True job_notes is not evaluated at all.
C27_AssignedBeforeRead ==
    /\ Rendered
       => /\ read \subseteq assigned
          /\ {"cpu_efficiency", "time_eff_violation"} \subseteq assigned
          /\ read \cap GpuAttributesOfNotes # {} => job.gpus > 0
          /\ job.gpus > 0 => GpuAttributesOfNotes \subseteq assigned
    /\ pc = "listed"
       => /\ read = {}
          /\ DOMAIN report = {"listing"}
          /\ zero_gpu = Unset /\ zero_cpu = Unset
          /\ assigned = AggregatesAssigned

\* A one-GPU job for which rule 2 read the GPU memory totals and rule 10 the
\* time efficiency.
C27_Witness ==
    /\ Rendered
    /\ job.gpus = 1
    /\ {"gpu_utilization", "gpu_util__node_util_index", "gpu_mem_total__used_alloc",
        "time_efficiency", "cpu_util__node_used_alloc_cores"} \subseteq read
    /\ "cpu_efficiency" \notin read

\* ---------------------------------------------------------------------
\* C23: the lookup is fatal exactly when the scheduler returns no record,
\* when End is neither 'Unknown' nor numeric, or when Start is not numeric
\* (a PENDING job); construction then ends in error, no metrics-store query
\* is issued and no report is produced.  End = 'Unknown' with a numeric
\* Start, a running job, is not a failure: the end time becomes the
\* current time.
NoRecord == ~sacct.ran \/ ~sacct.found

UnparsableTimes ==
    \/ sacct.end # "Unknown" /\ sacct.end # "numeric"
    \/ sacct.start # "numeric"

LookupAborted ==
    /\ pc = "aborted"
    /\ raised \in {"Failed to lookup jobid", "Failed to get details for job"}
    /\ job = Unset

StillRunning ==
    /\ sacct.ran /\ sacct.found
    /\ sacct.end = "Unknown" /\ sacct.start = "numeric"

C23_LookupFailureIsFatal ==
    pc # "start" =>
        /\ (NoRecord \/ UnparsableTimes) <=> LookupAborted
        /\ LookupAborted =>
               /\ queries = 0 /\ issued = <<>>
               /\ report = Unset /\ renders = 0 /\ stdout = <<>>
               /\ NothingAggregated
        /\ StillRunning => /\ ~LookupAborted
                           /\ job.end = "time.time()"

C23_Witness ==
    /\ LookupAborted
    /\ sacct.found /\ sacct.end = "None" /\ sacct.start = "numeric"

C23_RunningWitness ==
    /\ pc = "reported"
    /\ StillRunning

\* ---------------------------------------------------------------------
\* C22: aggregation begins only after the scheduler lookup and every
\* issued metrics-store query completed with success; the four CPU and
\* memory queries come first and the three GPU queries are issued only for
\* a job that requested GPUs; once a query fails no further query is
\* issued and nothing is aggregated or rendered.
QueryFailed == pc = "aborted" /\ raised \in QueryErrors

IsPrefix(s, t) == Len(s) <= Len(t) /\ s = SubSeq(t, 1, Len(s))

QueriesInOrder ==
    /\ IsPrefix(issued, << "total_memory", "used_memory", "total_time", "cpus",
                          "gpu_total_memory", "gpu_used_memory",
                          "gpu_utilization" >>)
    /\ Len(issued) > 4 => job.gpus > 0

AllQueriesAnswered ==
    /\ ~QueryFailed
    /\ Len(issued) = IF job.gpus > 0 THEN 7 ELSE 4

QueryRound ==
    /\ queries = 0 => issued = <<>>
    /\ queries > 0 =>
           /\ Len(issued) >= 1
           /\ QueriesInOrder
           /\ QueryFailed \/ AllQueriesAnswered
    /\ QueryFailed => NothingAggregated /\ NothingRendered
    /\ ~NothingAggregated =>
           /\ job # Unset /\ LookupSucceeds(sacct)
           /\ queries > 0 => AllQueriesAnswered

AggregationBegins == NothingAggregated /\ ~NothingAggregated'

QueryStep ==
    /\ pc # "aborted"
    /\ issued' # issued => pc = "query" /\ job # Unset /\ NothingAggregated
    /\ AggregationBegins =>
           /\ pc = "constructed" /\ raised = NotRaised
           /\ issued = <<>> \/ AllQueriesAnswered

C22_QueriesBeforeAggregation == []QueryRound /\ [][QueryStep]_vars

C22_Witness ==
    /\ QueryFailed
    /\ Len(issued) = 5

\* ---------------------------------------------------------------------
\* C21: main processes the job ids one after the other in the order
\* given: the lookup of the next job id starts only after the report of
\* the current one was produced in full, and after a fatal error no later
\* job id is looked up, queried or reported.
FatallyEnded == pc \in {"aborted", "failed"}

ReportProduced ==
    \/ pc = "reported" /\ report # Unset
    \/ pc = "json" /\ Len(stdout) > 0

NextJobStarted ==
    /\ jobid' = jobid + 1
    /\ pc' = "start" /\ sacct' = Unset /\ issued' = <<>> /\ queries' = 0
    /\ report' = Unset

MainStep ==
    /\ ~FatallyEnded
    /\ jobid' # jobid => ReportProduced /\ NextJobStarted
    /\ pc' = "start" => jobid' # jobid
    /\ args_job' = args_job

C21_JobsProcessedSequentially ==
    [](jobid \in 1..Len(args_job)) /\ [][MainStep]_vars

C21_Witness ==
    /\ FatallyEnded
    /\ jobid = 1
    /\ Len(args_job) = 2

C21_SecondJobWitness ==
    /\ jobid = 2
    /\ pc = "reported"
====
